---- MODULE Spec2Model ----
(***************************************************************************)
(* The environmental risk pipeline of the satellite dashboard backend:     *)
(*   detect_water_change, calculate_slope_factor,                          *)
(*   calculate_rainfall_factor, calculate_risk_score,                      *)
(*   generate_risk_geojson        (backend/services/environmental.py)      *)
(*   generate_alerts_from_geojson (backend/main.py)                        *)
(*                                                                         *)
(* Numbers.  The code computes in IEEE doubles; the model computes in      *)
(* exact fixed point and does not model rounding of doubles:               *)
(*   NDWI values                 1/100                                     *)
(*   elevation, cell size        decimetres                                *)
(*   rainfall                    millimetres                               *)
(*   slope angle                 1/100 degree                              *)
(*   factors and risk scores     1/10000   (FP units per point)            *)
(*   latitude, longitude         1/222 degree (two units per pixel)        *)
(*   a mean or a confidence      a fraction [num, den] of FP units         *)
(* A grid is a record [rows, cols, at] with at a function on the 0-based   *)
(* index pairs <<row, col>>, as a 2-D numpy array with its shape.          *)
(***************************************************************************)
EXTENDS Integers, Sequences, FiniteSets, TLC

\* ---------------------------------------------------------------- bounds
Rows == 3
Cols == 3
MaxFlagged == 4
MaxFeatures == 3
RngModulus == 64
MaxClock == 2
MaxMinutes == 60
TickMinutes == 10
MaxSatelliteId == 11

\* ------------------------------------------------------- program constants
FP == 100 * 100
DefaultThreshold == 20
WetnessThreshold == 30
DefaultCellSize == 300
BaseScore == 50 * FP
ProximityWeight == 10 * FP
FilterSize == 3
ScoreMin == 0
ScoreMax == 100 * FP
MinRegionArea == 3
LabelConnectivity == 2
KmPerDegree == 111
CoordUnitsPerDegree == 2 * KmPerDegree
km_per_pixel == 1
Seed == 42
MinGridSize == 20
MaxGridSize == 100
\* the river half-widths 5 and 8, the patch radius 4 and the margin 10 that randint
\* keeps from the border, at the scale of the grids analysed here: the wider river
\* covers cells the narrower one does not, a patch covers part of the grid
RiverWidthOld == 1
RiverWidthNew == 2
PatchRadius == 1
PatchMargin == 1
CACHE_DURATION == 30
CacheLimit == 50
MissingNdwi == -10
RadiusKm == 20
deg_per_pixel == (km_per_pixel * CoordUnitsPerDegree) \div KmPerDegree

\* ------------------------------------------------------------ grid helpers

Cells(r, c) == (0 .. r - 1) \X (0 .. c - 1)

MkGrid(r, c, f) == [rows |-> r, cols |-> c, at |-> [p \in Cells(r, c) |-> f[p]]]

GridCells(g) == Cells(g.rows, g.cols)

Shape(g) == <<g.rows, g.cols>>

NoGrid == MkGrid(0, 0, [p \in Cells(0, 0) |-> 0])

\* numpy broadcasting of two 2-D shapes: per axis the sizes are equal or one is 1
Broadcastable(a, b) ==
    /\ (a.rows = b.rows \/ a.rows = 1 \/ b.rows = 1)
    /\ (a.cols = b.cols \/ a.cols = 1 \/ b.cols = 1)

\* the element of g that a broadcast to a larger shape reads at index p
BAt(g, p) == g.at[<<IF g.rows = 1 THEN 0 ELSE p[1], IF g.cols = 1 THEN 0 ELSE p[2]>>]

\* np.clip(x, lo, hi)
Clip(x, lo, hi) == IF x < lo THEN lo ELSE IF x > hi THEN hi ELSE x

\* ------------------------------------------------------ detect_water_change
\* the comparisons taken inclusive
WaterExpansionAt_Inclusive(old, new, threshold) ==
    (new - old >= threshold) /\ (new >= WetnessThreshold)

\* change = new_ndwi - old_ndwi; (change > threshold) & (new_ndwi > 0.3)
WaterExpansionAt(old, new, threshold) == (new - old > threshold) /\ (new > WetnessThreshold)

detect_water_change(old, new, threshold) ==
    LET r == IF old.rows = 1 THEN new.rows ELSE old.rows
        c == IF old.cols = 1 THEN new.cols ELSE old.cols
    IN  MkGrid(r, c, [p \in Cells(r, c) |->
                        WaterExpansionAt(BAt(old, p), BAt(new, p), threshold)])

\* --------------------------------------------------- calculate_slope_factor
\* np.gradient(dem, cell_size) along one axis, as a numerator over 2 * cell_size:
\* one-sided first differences at the two ends, central differences inside.
GradientNum(dem, p, axis) ==
    LET n == IF axis = 1 THEN dem.rows ELSE dem.cols
        k == p[axis]
        At(m) == dem.at[IF axis = 1 THEN <<m, p[2]>> ELSE <<p[1], m>>]
    IN  IF k = 0 THEN 2 * (At(1) - At(0))
        ELSE IF k = n - 1 THEN 2 * (At(n - 1) - At(n - 2))
        ELSE At(k + 1) - At(k - 1)

\* <<angle in 1/100 degree, tan(angle)^2 in millionths, rounded up>>
TanTable ==
    << <<0, 0>>, <<100, 305>>, <<200, 1220>>, <<300, 2747>>,
       <<400, 4890>>, <<500, 7655>>, <<600, 11047>>, <<700, 15077>>,
       <<800, 19752>>, <<900, 25086>>, <<1000, 31092>>, <<1100, 37784>>,
       <<1200, 45181>>, <<1300, 53301>>, <<1400, 62165>>, <<1500, 71797>>,
       <<1600, 82223>>, <<1700, 93472>>, <<1800, 105573>>, <<1900, 118562>>,
       <<2000, 132475>>, <<2100, 147352>>, <<2200, 163238>>, <<2300, 180179>>,
       <<2400, 198229>>, <<2500, 217443>>, <<2600, 237884>>, <<2700, 259617>>,
       <<2800, 282715>>, <<2900, 307259>>, <<2993, 331457>>, <<2996, 332260>>,
       <<2999, 333065>>, <<3000, 333334>>, <<3001, 333603>>, <<3100, 361034>>,
       <<3200, 390462>>, <<3300, 421731>>, <<3400, 454962>>, <<3500, 490291>>,
       <<3600, 527865>>, <<3700, 567844>>, <<3800, 610408>>, <<3900, 655751>>,
       <<4000, 704089>>, <<4100, 755660>>, <<4200, 810728>>, <<4300, 869585>>,
       <<4400, 932555>>, <<4500, 1000000>>, <<4600, 1072324>>, <<4700, 1149975>>,
       <<4800, 1233461>>, <<4900, 1323348>>, <<5000, 1420277>>, <<5100, 1524971>>,
       <<5200, 1638251>>, <<5300, 1761048>>, <<5400, 1894428>>, <<5500, 2039607>>,
       <<5600, 2197988>>, <<5700, 2371185>>, <<5800, 2561071>>, <<5900, 2769827>>,
       <<6000, 3000000>>, <<6100, 3254589>>, <<6200, 3537133>>, <<6300, 3851840>>,
       <<6400, 4203746>>, <<6500, 4598910>>, <<6600, 5044682>>, <<6700, 5550041>>,
       <<6800, 6126055>>, <<6900, 6786490>>, <<7000, 7548633>>, <<7100, 8434441>>,
       <<7200, 9472136>>, <<7300, 10698477>>, <<7400, 12162060>>, <<7500, 13928204>>,
       <<7600, 16086364>>, <<7700, 18761684>>, <<7800, 22133545>>, <<7900, 26466437>>,
       <<8000, 32163438>>, <<8100, 39863459>>, <<8200, 50628487>>, <<8300, 66330379>>,
       <<8400, 90523131>>, <<8500, 130646096>>, <<8600, 204509056>>, <<8700, 364089778>>,
       <<8800, 820035003>> >>

\* np.degrees(np.arctan(np.sqrt(grad_x**2 + grad_y**2))) for the gradient
\* (nx / 2h, ny / 2h): the greatest tabulated angle that does not exceed the true
\* angle.  Whether the angle exceeds 30 degrees (tan^2 = 1/3) is decided exactly,
\* so an angle above the last breakpoint is never taken for one at or below it.
SlopeCentiDegrees(nx, ny, cell_size) ==
    LET n == nx * nx + ny * ny
        h == cell_size \div 100
        ppm == (n * 25) \div (h * h)
        below == {TanTable[k][1] : k \in {m \in 1 .. Len(TanTable) : TanTable[m][2] <= ppm}}
        floor == CHOOSE a \in below : \A b \in below : b <= a
    IN  IF 3 * n > 4 * cell_size * cell_size THEN (IF floor >= 3001 THEN floor ELSE 3001) ELSE floor

\* the piecewise remap of the slope angle (lines 73-80), in FP units
SlopeRemap(slope_degrees) ==
    IF slope_degrees <= 500 THEN slope_degrees * 100
    ELSE IF slope_degrees <= 1500 THEN 5 * FP + (slope_degrees - 500) * 100
    ELSE IF slope_degrees <= 3000 THEN 15 * FP + (slope_degrees - 1500) * 67
    ELSE 25 * FP

calculate_slope_factor(dem_, cell_size) ==
    MkGrid(dem_.rows, dem_.cols,
           [p \in GridCells(dem_) |->
               SlopeRemap(SlopeCentiDegrees(GradientNum(dem_, p, 2),
                                            GradientNum(dem_, p, 1), cell_size))])

\* ------------------------------------------------ calculate_rainfall_factor
RainfallRemap(r) ==
    IF r <= 50 THEN (r * 3 * FP) \div 50
    ELSE IF r <= 150 THEN 3 * FP + ((r - 50) * 5 * FP) \div 100
    ELSE IF r <= 300 THEN 8 * FP + ((r - 150) * 4 * FP) \div 150
    ELSE LET raised == 12 * FP + ((r - 300) * FP) \div 100
         IN  IF raised <= 15 * FP THEN raised ELSE 15 * FP

calculate_rainfall_factor(rain) ==
    MkGrid(rain.rows, rain.cols,
           [p \in GridCells(rain) |-> Clip(RainfallRemap(rain.at[p]), 0, 15 * FP)])

\* ----------------------------------------------------- calculate_risk_score
\* the index extension of mode 'wrap': (a b c d | a b c d | a b c d)
Reflect_Wrap(k, n) == IF k < 0 THEN k + n ELSE IF k >= n THEN k - n ELSE k

\* scipy.ndimage index extension in the default mode 'reflect': (d c b a | a b c d | d c b a)
Reflect(k, n) == IF k < 0 THEN -k - 1 ELSE IF k >= n THEN 2 * n - k - 1 ELSE k

HalfWindow == (FilterSize - 1) \div 2

\* the cells a size x size window centred on p reads
Window(g, p) ==
    {<<Reflect(p[1] + di, g.rows), Reflect(p[2] + dj, g.cols)>> :
        di \in -HalfWindow .. HalfWindow, dj \in -HalfWindow .. HalfWindow}

\* water_change.astype(float)
AsFloat(b) == IF b THEN 1 ELSE 0

\* maximum_filter(water_change.astype(float), size=3) at p
MaximumFilterAt(wc, p) == IF \E q \in Window(wc, p) : wc.at[q] THEN 1 ELSE 0

\* the bonus subtracted the wrong way round and the result left unclipped
RiskScoreAt_Unclipped(wc, sf, rf, p) ==
    LET flagged == (IF wc.at[p] THEN BaseScore + sf.at[p] + rf.at[p] ELSE 0)
        proximity_bonus == (AsFloat(wc.at[p]) - MaximumFilterAt(wc, p)) * ProximityWeight
    IN  flagged + proximity_bonus

RiskScoreAt(wc, sf, rf, p) ==
    LET flagged == (IF wc.at[p] THEN BaseScore + sf.at[p] + rf.at[p] ELSE 0)
        proximity_bonus == (MaximumFilterAt(wc, p) - AsFloat(wc.at[p])) * ProximityWeight
    IN  Clip(flagged + proximity_bonus, ScoreMin, ScoreMax)

calculate_risk_score(wc, sf, rf) ==
    MkGrid(wc.rows, wc.cols, [p \in GridCells(wc) |-> RiskScoreAt(wc, sf, rf, p)])

\* ---------------------------------------------------- generate_risk_geojson
\* the bands listed from the lowest up
risk_levels_Ascending ==
    << [min_risk |-> 40, max_risk |-> 60, level |-> "LOW", color |-> "#fbbf24"],
       [min_risk |-> 60, max_risk |-> 80, level |-> "MEDIUM", color |-> "#f97316"],
       [min_risk |-> 80, max_risk |-> 100, level |-> "HIGH", color |-> "#ef4444"] >>

risk_levels ==
    << [min_risk |-> 80, max_risk |-> 100, level |-> "HIGH", color |-> "#ef4444"],
       [min_risk |-> 60, max_risk |-> 80, level |-> "MEDIUM", color |-> "#f97316"],
       [min_risk |-> 40, max_risk |-> 60, level |-> "LOW", color |-> "#fbbf24"] >>

\* the upper limit of a band taken with it
BandMask_InclusiveTop(rs, band) ==
    {p \in GridCells(rs) : rs.at[p] >= band.min_risk * FP /\ rs.at[p] <= band.max_risk * FP}

\* mask = (risk_score >= min_risk) & (risk_score < max_risk), as the set of its true cells
BandMask(rs, band) ==
    {p \in GridCells(rs) : rs.at[p] >= band.min_risk * FP /\ rs.at[p] < band.max_risk * FP}

Abs(x) == IF x < 0 THEN -x ELSE x

\* edge neighbours only, whatever connectivity is asked for
Adjacent_EdgeOnly(p, q, connectivity) ==
    Abs(p[1] - q[1]) + Abs(p[2] - q[2]) = 1

\* skimage neighbourhood: at most `connectivity` orthogonal steps, each offset at most 1
Adjacent(p, q, connectivity) ==
    /\ p # q
    /\ Abs(p[1] - q[1]) <= 1
    /\ Abs(p[2] - q[2]) <= 1
    /\ Abs(p[1] - q[1]) + Abs(p[2] - q[2]) <= connectivity

RECURSIVE Grow(_, _, _)
Grow(S, mask, connectivity) ==
    LET T == S \cup {q \in mask : \E p \in S : Adjacent(p, q, connectivity)}
    IN  IF T = S THEN S ELSE Grow(T, mask, connectivity)

\* the first cell of a non-empty set in raster (row-major) order
FirstCell(S) == CHOOSE p \in S : \A q \in S : p[1] < q[1] \/ (p[1] = q[1] /\ p[2] <= q[2])

\* measure.label(mask, connectivity): the components, numbered 1, 2, ... in raster
\* order of their first cell; element k is the set of cells labelled k
RECURSIVE Label(_, _)
Label(mask, connectivity) ==
    IF mask = {} THEN <<>>
    ELSE LET comp == Grow({FirstCell(mask)}, mask, connectivity)
         IN  <<comp>> \o Label(mask \ comp, connectivity)

MinOf(S) == CHOOSE x \in S : \A y \in S : x <= y
MaxOf(S) == CHOOSE x \in S : \A y \in S : x >= y

\* the maxima taken as the largest indices themselves
BBox_Inclusive(cells) ==
    [minr |-> MinOf({p[1] : p \in cells}), minc |-> MinOf({p[2] : p \in cells}),
     maxr |-> MaxOf({p[1] : p \in cells}), maxc |-> MaxOf({p[2] : p \in cells})]

\* region.bbox: (min_row, min_col, max_row, max_col), the maxima exclusive
BBox(cells) ==
    [minr |-> MinOf({p[1] : p \in cells}), minc |-> MinOf({p[2] : p \in cells}),
     maxr |-> MaxOf({p[1] : p \in cells}) + 1, maxc |-> MaxOf({p[2] : p \in cells}) + 1]

\* measure.regionprops(labeled): one region per label, in label order
RegionProps(labeled) ==
    [k \in 1 .. Len(labeled) |->
        [label |-> k, cells |-> labeled[k], area |-> Cardinality(labeled[k]),
         bbox |-> BBox(labeled[k])]]

\* the size filter off by one
KeepRegion_TwoCells(region) == ~(region.area < MinRegionArea - 1)

KeepRegion(region) == ~(region.area < MinRegionArea)

\* the regions of one band that reach the feature list (lines 130-140)
BandRegions(rs, band) ==
    LET mask == BandMask(rs, band)
    IN  IF mask = {} THEN <<>>
        ELSE LET kept == SelectSeq(RegionProps(Label(mask, LabelConnectivity)), KeepRegion)
             IN  [k \in 1 .. Len(kept) |->
                    [level |-> band.level, color |-> band.color, label |-> kept[k].label,
                     cells |-> kept[k].cells, area |-> kept[k].area, bbox |-> kept[k].bbox]]

\* the regions in the order of the loop over risk_levels
RECURSIVE AllRegions(_, _)
AllRegions(rs, k) ==
    IF k > Len(risk_levels) THEN <<>>
    ELSE BandRegions(rs, risk_levels[k]) \o AllRegions(rs, k + 1)

RECURSIVE SumOver(_, _)
SumOver(rs, cells) ==
    IF cells = {} THEN 0
    ELSE LET p == CHOOSE q \in cells : TRUE IN rs.at[p] + SumOver(rs, cells \ {p})

\* rows taken to grow northward
Project_North(bbox, lat_c, lon_c) ==
    [lat_max |-> lat_c + bbox.maxr * deg_per_pixel,
     lat_min |-> lat_c + bbox.minr * deg_per_pixel,
     lon_min |-> lon_c + bbox.minc * deg_per_pixel,
     lon_max |-> lon_c + bbox.maxc * deg_per_pixel]

\* lines 142-147: the geographic box of a pixel box
Project(bbox, lat_c, lon_c) ==
    [lat_max |-> lat_c - bbox.minr * deg_per_pixel,
     lat_min |-> lat_c - bbox.maxr * deg_per_pixel,
     lon_min |-> lon_c + bbox.minc * deg_per_pixel,
     lon_max |-> lon_c + bbox.maxc * deg_per_pixel]

\* lines 149-155: the ring handed to Polygon, points as <<lon, lat>>
Ring(g) ==
    << <<g.lon_min, g.lat_min>>, <<g.lon_max, g.lat_min>>, <<g.lon_max, g.lat_max>>,
       <<g.lon_min, g.lat_max>>, <<g.lon_min, g.lat_min>> >>

Feature(region, rs, lat_c, lon_c) ==
    LET g == Project(region.bbox, lat_c, lon_c)
    IN  [type |-> "Feature",
         geometry |-> [type |-> "Polygon", coordinates |-> <<Ring(g)>>],
         properties |->
            [risk_level |-> region.level,
             risk_score |-> [num |-> SumOver(rs, region.cells), den |-> region.area],
             area_km2 |-> region.area * km_per_pixel * km_per_pixel,
             color |-> region.color,
             center_lat |-> (g.lat_min + g.lat_max) \div 2,
             center_lon |-> (g.lon_min + g.lon_max) \div 2]]

generate_risk_geojson(rs, lat_c, lon_c) ==
    LET regs == AllRegions(rs, 1)
    IN  [type |-> "FeatureCollection",
         features |-> [k \in 1 .. Len(regs) |-> Feature(regs[k], rs, lat_c, lon_c)]]

\* ------------------------------------------ generate_synthetic_satellite_data
\* numpy's global generator, as a linear congruential generator on 0 .. RngModulus - 1:
\* np.random.seed sets the state, every draw advances it
RngSeed(x) == x % RngModulus

RngStep(s) == (61 * s + 7) % RngModulus

\* k steps taken at once: <<a, b>> with RngStep applied k times to s being
\* (a * s + b) % RngModulus, built from the steps of k \div 2
RECURSIVE RngSteps(_)
RngSteps(k) ==
    IF k = 0 THEN <<1, 0>>
    ELSE LET h == RngSteps(k \div 2)
             twice == <<(h[1] * h[1]) % RngModulus, (h[1] * h[2] + h[2]) % RngModulus>>
         IN  IF k % 2 = 0 THEN twice
             ELSE <<(61 * twice[1]) % RngModulus, (61 * twice[2] + 7) % RngModulus>>

\* the state k draws after state s
RngAfter(s, k) == (RngSteps(k)[1] * s + RngSteps(k)[2]) % RngModulus

\* np.random.uniform(lo, hi) read off the state
Uniform(s, lo, hi) == lo + (s * (hi - lo)) \div RngModulus

\* np.random.randint(low, high) read off the state, low < high
RandInt(s, low, high) == low + (s % (high - low))

\* the integer part of a distance between cells
Isqrt(n) == CHOOSE r \in 0 .. 80 : r * r <= n /\ (r + 1) * (r + 1) > n

\* 80 * exp(-dist / 8) in decimetres and 100 * exp(-dist / 5) in millimetres, by
\* the integer part of dist
MountainTable ==
    <<
       800, 706, 623, 550, 485, 428, 378, 333, 294, 260, 229, 202,
       179, 158, 139, 123, 108, 96, 84, 74, 66, 58, 51, 45,
       40, 35, 31, 27, 24, 21, 19, 17, 15, 13, 11, 10,
       9, 8, 7, 6, 5, 5, 4, 4, 3, 3, 3, 2,
       2, 2, 2, 1, 1, 1, 1, 1, 1, 1, 1, 1,
       0, 0, 0, 0, 0, 0, 0, 0, 0, 0, 0, 0,
       0, 0, 0, 0, 0, 0, 0, 0, 0 >>

MonsoonTable ==
    <<
       100, 82, 67, 55, 45, 37, 30, 25, 20, 17, 14, 11,
       9, 7, 6, 5, 4, 3, 3, 2, 2, 1, 1, 1,
       1, 1, 1, 0, 0, 0, 0, 0, 0, 0, 0, 0,
       0, 0, 0, 0, 0, 0, 0, 0, 0, 0, 0, 0,
       0, 0, 0, 0, 0, 0, 0, 0, 0, 0, 0, 0,
       0, 0, 0, 0, 0, 0, 0, 0, 0, 0, 0, 0,
       0, 0, 0, 0, 0, 0, 0, 0, 0 >>

\* <<row, column>> of the three mountains and of the three monsoon centres
mountain_regions == << <<10, 10>>, <<40, 40>>, <<25, 35>> >>
monsoon_centers == << <<15, 20>>, <<35, 40>>, <<25, 30>> >>

Dist(p, c) == Isqrt((p[2] - c[2]) * (p[2] - c[2]) + (p[1] - c[1]) * (p[1] - c[1]))

Bumps(p, centers, table) ==
    table[Dist(p, centers[1]) + 1] + table[Dist(p, centers[2]) + 1]
        + table[Dist(p, centers[3]) + 1]

\* np.abs(yy - xx * 0.8) < width, yy the row and xx the column
RiverMask(n, width) == {p \in Cells(n, n) : Abs(10 * p[1] - 8 * p[2]) < 10 * width}

\* the position of cell p among the cells of mask in raster order, from 1
RasterRank(mask, p) ==
    Cardinality({q \in mask : q[1] < p[1] \/ (q[1] = p[1] /\ q[2] <= p[2])})

\* a flood patch: its centre from two draws, its cells redrawn.  k is the number of
\* draws made before it; the result is the grid and the draws made after it
AddWaterPatch(s0, n, g, k) ==
    LET cx == RandInt(RngAfter(s0, k + 1), PatchMargin, n - PatchMargin)
        cy == RandInt(RngAfter(s0, k + 2), PatchMargin, n - PatchMargin)
        water_patch == {p \in Cells(n, n) :
                          (p[2] - cx) * (p[2] - cx) + (p[1] - cy) * (p[1] - cy)
                              < PatchRadius * PatchRadius}
    IN  [grid |-> [p \in Cells(n, n) |->
                      IF p \in water_patch
                      THEN Uniform(RngAfter(s0, k + 2 + RasterRank(water_patch, p)), 40, 70)
                      ELSE g[p]],
         draws |-> k + 2 + Cardinality(water_patch)]

\* the generator reseeded where it is left as it stands
SeededState_Unseeded(state) == state

\* np.random.seed(42): the state the draws start from, whatever it was
SeededState(state) == RngSeed(Seed)

\* the four grids of an n x n analysis and the state the generator is left in; the
\* centre is not used.  randint raises ValueError unless low < high
generate_synthetic_satellite_data(state, lat_c, lon_c, n) ==
    LET s0 == SeededState(state)
        cells == Cells(n, n)
        nn == n * n
        river_mask_old == RiverMask(n, RiverWidthOld)
        river_mask_new == RiverMask(n, RiverWidthNew)
        k1 == nn + Cardinality(river_mask_old)
        k2 == k1 + Cardinality(river_mask_new)
        old == [p \in cells |->
                  IF p \in river_mask_old
                  THEN Uniform(RngAfter(s0, nn + RasterRank(river_mask_old, p)), 30, 60)
                  ELSE Uniform(RngAfter(s0, RasterRank(cells, p)), -30, 20)]
        new0 == [p \in cells |->
                  IF p \in river_mask_new
                  THEN Uniform(RngAfter(s0, k1 + RasterRank(river_mask_new, p)), 35, 70)
                  ELSE old[p]]
        patch1 == AddWaterPatch(s0, n, new0, k2)
        patch2 == AddWaterPatch(s0, n, patch1.grid, patch1.draws)
        patch3 == AddWaterPatch(s0, n, patch2.grid, patch2.draws)
        k3 == patch3.draws
        k4 == k3 + nn
        k5 == k4 + nn
    IN  IF PatchMargin >= n - PatchMargin
        THEN [error |-> "ValueError", state |-> RngAfter(s0, k2),
              old_ndwi |-> NoGrid, new_ndwi |-> NoGrid, dem |-> NoGrid, rainfall |-> NoGrid]
        ELSE [error |-> "none", state |-> RngAfter(s0, k5),
              old_ndwi |-> MkGrid(n, n, old),
              new_ndwi |-> MkGrid(n, n, patch3.grid),
              dem |-> MkGrid(n, n, [p \in cells |->
                         1000 + 5 * Abs(10 * p[1] - 8 * p[2])
                         + Uniform(RngAfter(s0, k3 + RasterRank(cells, p)), -50, 50)
                         + Bumps(p, mountain_regions, MountainTable)]),
              rainfall |-> MkGrid(n, n, [p \in cells |->
                         Clip(Uniform(RngAfter(s0, k4 + RasterRank(cells, p)), 50, 150)
                              + Bumps(p, monsoon_centers, MonsoonTable), 0, 500)])]

\* --------------------------------------------- generate_alerts_from_geojson
alert_templates ==
    [HIGH |-> "Critical Erosion Risk Detected",
     MEDIUM |-> "Moderate Risk Area Identified",
     LOW |-> "Low Risk Alert"]

risk_order == [HIGH |-> 0, MEDIUM |-> 1, LOW |-> 2]

\* fractions [num, den] of FP units, den > 0
FracLess(a, b) == a.num * b.den < b.num * a.den
FracOf(x) == [num |-> x, den |-> 1]

\* the lower clamp left out: min(95, 60 + (risk_score - 40) * 0.7) alone
Confidence_NoFloor(score) ==
    LET raw == [num |-> 600 * FP * score.den + (score.num - 40 * FP * score.den) * 7,
                den |-> 10 * score.den]
    IN  IF raw.num * 1 > 95 * FP * raw.den THEN [num |-> 95 * FP, den |-> 1] ELSE raw

\* min(95, 60 + (risk_score - 40) * 0.7), then max(50, .)
Confidence(score) ==
    LET raw == [num |-> 600 * FP * score.den + (score.num - 40 * FP * score.den) * 7,
                den |-> 10 * score.den]
        capped == IF FracLess(FracOf(95 * FP), raw) THEN FracOf(95 * FP) ELSE raw
    IN  IF FracLess(capped, FracOf(50 * FP)) THEN FracOf(50 * FP) ELSE capped

\* latitude and longitude of the location taken from each other's property
MakeAlert_SwappedLocation(idx, feature) ==
    LET props == feature.properties
    IN  [id |-> idx,
         level |-> props.risk_level,
         title |-> alert_templates[props.risk_level],
         description |-> [template |-> props.risk_level, place |-> "Region",
                          lat |-> props.center_lat, lon |-> props.center_lon,
                          area |-> props.area_km2],
         area_km2 |-> props.area_km2,
         confidence |-> Confidence(props.risk_score),
         location |-> [lat |-> props.center_lon, lon |-> props.center_lat]]

MakeAlert(idx, feature) ==
    LET props == feature.properties
    IN  [id |-> idx,
         level |-> props.risk_level,
         title |-> alert_templates[props.risk_level],
         description |-> [template |-> props.risk_level, place |-> "Region",
                          lat |-> props.center_lat, lon |-> props.center_lon,
                          area |-> props.area_km2],
         area_km2 |-> props.area_km2,
         confidence |-> Confidence(props.risk_score),
         location |-> [lat |-> props.center_lat, lon |-> props.center_lon]]

\* the area taken ascending: the key (risk_order[x.level], x.area_km2)
SortKeyLess_AreaAscending(a, b) ==
    \/ risk_order[a.level] < risk_order[b.level]
    \/ (risk_order[a.level] = risk_order[b.level] /\ a.area_km2 < b.area_km2)

\* the sort key (risk_order[x.level], -x.area_km2), compared as Python compares tuples
SortKeyLess(a, b) ==
    \/ risk_order[a.level] < risk_order[b.level]
    \/ (risk_order[a.level] = risk_order[b.level] /\ -a.area_km2 < -b.area_km2)

\* list.sort is stable: an element goes after every element whose key is not greater
RECURSIVE InsertSorted(_, _)
InsertSorted(sorted, a) ==
    IF sorted = <<>> THEN <<a>>
    ELSE IF SortKeyLess(a, Head(sorted)) THEN <<a>> \o sorted
    ELSE <<Head(sorted)>> \o InsertSorted(Tail(sorted), a)

RECURSIVE SortAlerts(_, _)
SortAlerts(list, k) ==
    IF k = 0 THEN <<>> ELSE InsertSorted(SortAlerts(list, k - 1), list[k])

generate_alerts_from_geojson(gj) ==
    LET features == gj.features
        unsorted == [k \in 1 .. Len(features) |-> MakeAlert(k - 1, features[k])]
    IN  SortAlerts(unsorted, Len(unsorted))

\* ------------------------------------------------------------ the endpoints
RECURSIVE Gcd(_, _)
Gcd(a, b) == IF b = 0 THEN a ELSE Gcd(b, a % b)

FracAdd(a, b) ==
    LET num == a.num * b.den + b.num * a.den
        den == a.den * b.den
        g == Gcd(num, den)
    IN  [num |-> num \div g, den |-> den \div g]

RECURSIVE SumConfidence(_, _)
SumConfidence(list, k) ==
    IF k = 0 THEN FracOf(0) ELSE FracAdd(SumConfidence(list, k - 1), list[k].confidence)

\* the guard left out: sum(...) / len(alerts) alone, undefined on an empty list
OverallConfidence_Unguarded(list) ==
    LET total == SumConfidence(list, Len(list))
    IN  [num |-> total.num, den |-> total.den * Len(list)]

\* sum(a.confidence for a in alerts) / len(alerts) if alerts else 0.0
OverallConfidence(list) ==
    IF list # <<>>
    THEN LET total == SumConfidence(list, Len(list))
         IN  [num |-> total.num, den |-> total.den * Len(list)]
    ELSE FracOf(0)

RiskResponse(gj, list) ==
    [status |-> 200, geojson |-> gj, alerts |-> list, confidence |-> OverallConfidence(list)]

\* raise HTTPException(status, detail)
HTTPException(status, detail) == [status |-> status, detail |-> detail]

\* ==================================================================== state
VARIABLES
    pc,               \* the stage one analysis has reached
    error,            \* the exception that ended it, or "none"
    old_ndwi, new_ndwi, dem, rainfall,     \* the four input grids
    lat_center, lon_center,                \* the centre handed to the projector
    water_change, slope_factor, rainfall_factor, risk_score,
    regions,          \* the regions behind the features (region, region_mask), in order
    geojson,          \* the FeatureCollection
    alerts,           \* the sorted alert list
    np_random,        \* the state of numpy's global generator
    endpoint,         \* the endpoint serving the analysis, "none" for a bare pipeline
    response,         \* what the request returned: a RiskResponse or an HTTPException
    first_features,   \* per centre, the features of the first /api/environmental/risk response
    region_idx,       \* national analysis: the position in key_regions
    all_features, all_alerts,              \* national analysis: the accumulators
    items,            \* real analysis: the imagery items found
    STAC_CACHE,       \* the cache of stac_search, a set of entries
    now,              \* the clock, one tick per reading that differs
    search,           \* what the imagery catalogue answered to the latest search
    request,          \* the search or tracking request being handled
    satellites_db,    \* the tracked satellites, a list
    next_satellite_id

tracking == <<request, satellites_db, next_satellite_id>>

server == <<np_random, endpoint, response, first_features, region_idx, all_features,
            all_alerts, items, STAC_CACHE, now, search, tracking>>

vars == <<pc, error, old_ndwi, new_ndwi, dem, rainfall, lat_center, lon_center,
          water_change, slope_factor, rainfall_factor, risk_score, regions, geojson, alerts,
          server>>

inputs == <<old_ndwi, new_ndwi, dem, rainfall, lat_center, lon_center>>

NoGeojson == [type |-> "FeatureCollection", features |-> <<>>]

\* ------------------------------------------------------------------ inputs
AllCells == Cells(Rows, Cols)

FlaggedSets == {W \in SUBSET AllCells : Cardinality(W) <= MaxFlagged}

Parity(p) == (p[1] + p[2]) % 2

UniformGrid(r, c, v) == MkGrid(r, c, [p \in Cells(r, c) |-> v])

\* value a on the even cells of H, b on its odd cells, bg elsewhere
PaletteGrid(H, a, b, bg) ==
    MkGrid(Rows, Cols,
           [p \in AllCells |-> IF p \in H THEN (IF Parity(p) = 0 THEN a ELSE b) ELSE bg])

MaskGrid(W) == MkGrid(Rows, Cols, [p \in AllCells |-> p \in W])

\* <<old, new>> NDWI in hundredths.  Expanding water just past both thresholds:
NdwiWetPairs == {<<35, 56>>, <<10, 31>>}
\* and cells on a threshold: the difference at 0.2, the new value at 0.3, or both
NdwiEdgePairs == {<<35, 55>>, <<5, 30>>, <<10, 30>>}

\* elevation in decimetres: a plane or a valley (ridge = 1) with the given steps per pixel
DemSteps == {-173, 0, 20, 60, 120, 173, 300}
DemGrid(r, c, dr, dc, ridge) == MkGrid(r, c, [p \in Cells(r, c) |-> 1000 + dr * Abs(p[1] - ridge) + dc * p[2]])

\* rainfall in millimetres, rising eastward
RainGrid(r, c, r0, step) == MkGrid(r, c, [p \in Cells(r, c) |-> r0 + step * p[2]])

\* centres in 1/222 degree: (26.0, 92.0) and (10.0, 76.5)
Centers == {<<26 * CoordUnitsPerDegree, 92 * CoordUnitsPerDegree>>,
            <<10 * CoordUnitsPerDegree, (153 * CoordUnitsPerDegree) \div 2>>}

NoResponse == [status |-> 0]

\* no imagery search has been made
NoSearch == [performed |-> FALSE, raises |-> FALSE, items |-> <<>>]

NotServed == [served |-> FALSE, features |-> <<>>]

\* services/satellite.py: the satellites tracked from the start
DEFAULT_SATELLITES ==
    << [id |-> 1, name |-> "ISS (ZARYA)", norad_id |-> 25544, color |-> "#00f0ff"],
       [id |-> 2, name |-> "HUBBLE", norad_id |-> 20580, color |-> "#ff00f0"],
       [id |-> 3, name |-> "Starlink-1007", norad_id |-> 44713, color |-> "#f0ff00"],
       [id |-> 4, name |-> "NOAA 18", norad_id |-> 28654, color |-> "#ff7000"],
       [id |-> 5, name |-> "Sentinel-2A", norad_id |-> 40697, color |-> "#60A5FA"],
       [id |-> 6, name |-> "Landsat-9", norad_id |-> 49260, color |-> "#34D399"],
       [id |-> 7, name |-> "TerraSAR-X", norad_id |-> 31698, color |-> "#F59E0B"],
       [id |-> 8, name |-> "CARTOSAT-3", norad_id |-> 44804, color |-> "#EC4899"] >>

\* satellites_db = [dict(sat, is_active=True) for sat in DEFAULT_SATELLITES] and
\* next_satellite_id = len(satellites_db) + 1, no request received
TrackingIdle ==
    /\ request = [op |-> "none"]
    /\ satellites_db = [k \in 1 .. Len(DEFAULT_SATELLITES) |->
                          [id |-> DEFAULT_SATELLITES[k].id,
                           name |-> DEFAULT_SATELLITES[k].name,
                           norad_id |-> DEFAULT_SATELLITES[k].norad_id,
                           color |-> DEFAULT_SATELLITES[k].color,
                           is_active |-> TRUE]]
    /\ next_satellite_id = Len(satellites_db) + 1

\* no request is being served and none has been
ServerIdle ==
    /\ np_random = RngSeed(0)
    /\ endpoint = "none"
    /\ response = NoResponse
    /\ first_features = [c \in Centers |-> NotServed]
    /\ region_idx = 0
    /\ all_features = <<>> /\ all_alerts = <<>>
    /\ items = <<>>
    /\ STAC_CACHE = {}
    /\ now = 0
    /\ search = NoSearch
    /\ TrackingIdle

Idle ==
    /\ error = "none"
    /\ water_change = NoGrid /\ slope_factor = NoGrid /\ rainfall_factor = NoGrid
    /\ risk_score = NoGrid /\ regions = <<>> /\ geojson = NoGeojson /\ alerts = <<>>

\* one analysis about to start on four grids of one shape
Init ==
    /\ pc = "start"
    /\ ServerIdle
    /\ Idle
    /\ \E W \in FlaggedSets, wet \in NdwiWetPairs, edge \in NdwiEdgePairs :
        /\ old_ndwi = PaletteGrid(W, wet[1], wet[1], edge[1])
        /\ new_ndwi = PaletteGrid(W, wet[2], wet[2], edge[2])
    /\ \E terrain \in {<<DemGrid(Rows, Cols, 0, 0, 0), RainGrid(Rows, Cols, 0, 0)>>,
                       <<DemGrid(Rows, Cols, 120, 173, 1), RainGrid(Rows, Cols, 100, 150)>>} :
        dem = terrain[1] /\ rainfall = terrain[2]
    /\ lat_center = 26 * CoordUnitsPerDegree
    /\ lon_center = 92 * CoordUnitsPerDegree

\* ----------------------------------------------------------------- actions
Fail(exc) == pc' = "failed" /\ error' = exc

\* water_change = detect_water_change(old_ndwi, new_ndwi); numpy raises ValueError
\* when the two shapes cannot be broadcast together
DetectWaterChange ==
    /\ pc = "start"
    /\ IF Broadcastable(old_ndwi, new_ndwi)
       THEN /\ water_change' = detect_water_change(old_ndwi, new_ndwi, DefaultThreshold)
            /\ pc' = "detected"
            /\ UNCHANGED error
       ELSE Fail("ValueError") /\ UNCHANGED water_change
    /\ UNCHANGED <<inputs, server, slope_factor, rainfall_factor, risk_score, regions, geojson, alerts>>

\* slope_factor = calculate_slope_factor(dem); np.gradient raises ValueError on an
\* axis shorter than two
CalculateSlopeFactor ==
    /\ pc = "detected"
    /\ IF dem.rows >= 2 /\ dem.cols >= 2
       THEN /\ slope_factor' = calculate_slope_factor(dem, DefaultCellSize)
            /\ pc' = "sloped"
            /\ UNCHANGED error
       ELSE Fail("ValueError") /\ UNCHANGED slope_factor
    /\ UNCHANGED <<inputs, server, water_change, rainfall_factor, risk_score, regions, geojson, alerts>>

\* rainfall_factor = calculate_rainfall_factor(rainfall)
CalculateRainfallFactor ==
    /\ pc = "sloped"
    /\ rainfall_factor' = calculate_rainfall_factor(rainfall)
    /\ pc' = "rained"
    /\ UNCHANGED <<error, inputs, server, water_change, slope_factor, risk_score, regions, geojson, alerts>>

\* risk_score = calculate_risk_score(...); indexing a factor grid with a boolean
\* mask of another shape raises IndexError
CalculateRiskScore ==
    /\ pc = "rained"
    /\ IF Shape(slope_factor) = Shape(water_change) /\ Shape(rainfall_factor) = Shape(water_change)
       THEN /\ risk_score' = calculate_risk_score(water_change, slope_factor, rainfall_factor)
            /\ pc' = "scored"
            /\ UNCHANGED error
       ELSE Fail("IndexError") /\ UNCHANGED risk_score
    /\ UNCHANGED <<inputs, server, water_change, slope_factor, rainfall_factor, regions, geojson, alerts>>

\* geojson = generate_risk_geojson(risk_score, lat, lon)
GenerateRiskGeojson ==
    /\ pc = "scored"
    /\ regions' = AllRegions(risk_score, 1)
    /\ geojson' = generate_risk_geojson(risk_score, lat_center, lon_center)
    /\ pc' = "geojson"
    /\ UNCHANGED <<error, inputs, server, water_change, slope_factor, rainfall_factor, risk_score, alerts>>

\* alerts = generate_alerts_from_geojson(geojson)
GenerateAlerts ==
    /\ pc = (IF endpoint = "national" THEN "tagged" ELSE "geojson")
    /\ alerts' = generate_alerts_from_geojson(geojson)
    /\ pc' = "done"
    /\ UNCHANGED <<error, inputs, server, water_change, slope_factor, rainfall_factor, risk_score,
                   regions, geojson>>

Next ==
    \/ DetectWaterChange
    \/ CalculateSlopeFactor
    \/ CalculateRainfallFactor
    \/ CalculateRiskScore
    \/ GenerateRiskGeojson
    \/ GenerateAlerts

Spec == Init /\ [][Next]_vars

\* ------------------------------------------- the stages taken one at a time
\* calculate_slope_factor on elevation grids of every step combination
InitSlope ==
    /\ pc = "detected"
    /\ ServerIdle
    /\ error = "none"
    /\ old_ndwi = UniformGrid(Rows, Cols, 10) /\ new_ndwi = UniformGrid(Rows, Cols, 10)
    /\ water_change = MaskGrid({})
    /\ \E dr \in DemSteps, dc \in DemSteps, ridge \in {0, 1} :
          dem = DemGrid(Rows, Cols, dr, dc, ridge)
    /\ rainfall = RainGrid(Rows, Cols, 0, 0)
    /\ lat_center = 26 * CoordUnitsPerDegree /\ lon_center = 92 * CoordUnitsPerDegree
    /\ slope_factor = NoGrid /\ rainfall_factor = NoGrid /\ risk_score = NoGrid
    /\ regions = <<>> /\ geojson = NoGeojson /\ alerts = <<>>

NextSlope == CalculateSlopeFactor

SpecSlope == InitSlope /\ [][NextSlope]_vars

\* calculate_risk_score on every change mask of at most MaxFlagged cells and factor
\* grids that take the ends of their declared ranges
SlopeFactorValues == {0, 25 * FP}
RainfallFactorValues == {0, 15 * FP}

InitScore ==
    /\ pc = "rained"
    /\ ServerIdle
    /\ error = "none"
    /\ old_ndwi = NoGrid /\ new_ndwi = NoGrid /\ dem = NoGrid /\ rainfall = NoGrid
    /\ lat_center = 26 * CoordUnitsPerDegree /\ lon_center = 92 * CoordUnitsPerDegree
    /\ \E W \in FlaggedSets : water_change = MaskGrid(W)
    /\ \E a \in SlopeFactorValues, b \in SlopeFactorValues :
        slope_factor = PaletteGrid(AllCells, a, b, 0)
    /\ \E a \in RainfallFactorValues, b \in RainfallFactorValues :
        rainfall_factor = PaletteGrid(AllCells, a, b, 0)
    /\ risk_score = NoGrid /\ regions = <<>> /\ geojson = NoGeojson /\ alerts = <<>>

NextScore == CalculateRiskScore

SpecScore == InitScore /\ [][NextScore]_vars

\* generate_risk_geojson on score grids in [0, 100]: at most MaxFlagged non-zero
\* cells, valued just below, at and between the band limits
ScoreValues == {40 * FP - 100, 40 * FP, 50 * FP, 60 * FP, 80 * FP, 100 * FP}

InitGeo ==
    /\ pc = "scored"
    /\ ServerIdle
    /\ error = "none"
    /\ old_ndwi = NoGrid /\ new_ndwi = NoGrid /\ dem = NoGrid /\ rainfall = NoGrid
    /\ water_change = NoGrid /\ slope_factor = NoGrid /\ rainfall_factor = NoGrid
    /\ \E c \in Centers : lat_center = c[1] /\ lon_center = c[2]
    /\ \E H \in FlaggedSets, a \in ScoreValues, b \in ScoreValues :
        /\ a <= b
        /\ risk_score = PaletteGrid(H, a, b, 0)
    /\ regions = <<>> /\ geojson = NoGeojson /\ alerts = <<>>

NextGeo == GenerateRiskGeojson

SpecGeo == InitGeo /\ [][NextGeo]_vars

\* generate_alerts_from_geojson on every feature list of at most MaxFeatures features

SampleFeature(level, area, score) ==
    LET g == Project([minr |-> 0, minc |-> 0, maxr |-> 1, maxc |-> area],
                     26 * CoordUnitsPerDegree, 92 * CoordUnitsPerDegree)
    IN  [type |-> "Feature",
         geometry |-> [type |-> "Polygon", coordinates |-> <<Ring(g)>>],
         properties |->
            [risk_level |-> level,
             risk_score |-> FracOf(score),
             area_km2 |-> area,
             color |-> "#000000",
             center_lat |-> (g.lat_min + g.lat_max) \div 2,
             center_lon |-> (g.lon_min + g.lon_max) \div 2]]

SampleFeatures ==
    {SampleFeature(l, a, sc) : l \in {"HIGH", "MEDIUM", "LOW"}, a \in {3, 5}, sc \in {0, 58 * FP, 100 * FP}}

FeatureLists == UNION {[1 .. n -> SampleFeatures] : n \in 0 .. MaxFeatures}

InitAlerts ==
    /\ pc = "geojson"
    /\ ServerIdle
    /\ error = "none"
    /\ old_ndwi = NoGrid /\ new_ndwi = NoGrid /\ dem = NoGrid /\ rainfall = NoGrid
    /\ water_change = NoGrid /\ slope_factor = NoGrid /\ rainfall_factor = NoGrid
    /\ risk_score = NoGrid /\ regions = <<>>
    /\ lat_center = 26 * CoordUnitsPerDegree /\ lon_center = 92 * CoordUnitsPerDegree
    /\ \E fs \in FeatureLists : geojson = [type |-> "FeatureCollection", features |-> fs]
    /\ alerts = <<>>

NextAlerts == GenerateAlerts

SpecAlerts == InitAlerts /\ [][NextAlerts]_vars

\* generate_risk_geojson and generate_alerts_from_geojson on score grids made of
\* uniform rows, each row below the bands or inside one of them

RowGrid(v) == MkGrid(Rows, Cols, [p \in AllCells |-> v[p[1]]])

InitBands ==
    /\ pc = "scored"
    /\ ServerIdle
    /\ error = "none"
    /\ old_ndwi = NoGrid /\ new_ndwi = NoGrid /\ dem = NoGrid /\ rainfall = NoGrid
    /\ water_change = NoGrid /\ slope_factor = NoGrid /\ rainfall_factor = NoGrid
    /\ lat_center = 26 * CoordUnitsPerDegree /\ lon_center = 92 * CoordUnitsPerDegree
    /\ \E v \in [0 .. Rows - 1 -> {0, 50 * FP, 70 * FP, 90 * FP}] : risk_score = RowGrid(v)
    /\ regions = <<>> /\ geojson = NoGeojson /\ alerts = <<>>

NextBands == GenerateRiskGeojson \/ GenerateAlerts

SpecBands == InitBands /\ [][NextBands]_vars

\* both steps on the score grids of InitGeo, whose cells sit at and between the
\* band limits
SpecFeatures == InitGeo /\ [][NextBands]_vars

\* ------------------------------------------------------------- the server
\* grid_size as the request gives it: below the accepted range, and the default

\* the side of the grid a request of an accepted grid_size is analysed on
AnalysisGrid == Rows

\* the outputs of an earlier analysis are out of reach of a new request
FreshAnalysis ==
    /\ error' = "none"
    /\ water_change' = NoGrid /\ slope_factor' = NoGrid /\ rainfall_factor' = NoGrid
    /\ risk_score' = NoGrid /\ regions' = <<>> /\ geojson' = NoGeojson /\ alerts' = <<>>

\* GET /api/environmental/risk up to the call of generate_synthetic_satellite_data
RiskRequest ==
    /\ pc = "idle"
    /\ \E c \in Centers, grid_size \in {19, 50} :
        IF ~(MinGridSize <= grid_size /\ grid_size <= MaxGridSize)
        THEN /\ response' = HTTPException(400, "Grid size must be 20-100")
             /\ UNCHANGED <<pc, error, inputs, water_change, slope_factor, rainfall_factor,
                            risk_score, regions, geojson, alerts, endpoint>>
        ELSE /\ lat_center' = c[1] /\ lon_center' = c[2]
             /\ old_ndwi' = NoGrid /\ new_ndwi' = NoGrid
             /\ dem' = NoGrid /\ rainfall' = NoGrid
             /\ FreshAnalysis
             /\ endpoint' = "risk"
             /\ response' = NoResponse
             /\ pc' = "generate"
    /\ UNCHANGED <<np_random, first_features, region_idx, all_features, all_alerts, items,
                   STAC_CACHE, now, search, tracking>>

\* the call of generate_synthetic_satellite_data in an endpoint: the synthetic
\* endpoints take the four grids, the real one only dem and rainfall
\* (_, _, dem, rainfall = ...)
SyntheticData ==
    /\ pc = "generate"
    /\ \E data \in {generate_synthetic_satellite_data(np_random, lat_center, lon_center,
                                                        AnalysisGrid)} :
       LET raised == data.error # "none"
       IN  /\ np_random' = data.state
           /\ old_ndwi' = (IF endpoint = "real" /\ ~raised THEN old_ndwi ELSE data.old_ndwi)
           /\ new_ndwi' = (IF endpoint = "real" /\ ~raised THEN new_ndwi ELSE data.new_ndwi)
           /\ dem' = data.dem /\ rainfall' = data.rainfall
           /\ response' = (IF raised THEN HTTPException(500, data.error) ELSE response)
           /\ endpoint' = (IF raised THEN "none" ELSE endpoint)
           /\ pc' = (IF raised THEN "idle" ELSE "start")
    /\ UNCHANGED <<error, lat_center, lon_center, water_change, slope_factor, rainfall_factor,
                   risk_score, regions, geojson, alerts, first_features, region_idx,
                   all_features, all_alerts, items, STAC_CACHE, now, search, tracking>>

\* GET /api/environmental/risk from overall_confidence to the return
RiskRespond ==
    /\ pc = "done" /\ endpoint = "risk"
    /\ response' = RiskResponse(geojson, alerts)
    /\ first_features' =
         IF first_features[<<lat_center, lon_center>>].served
         THEN first_features
         ELSE [first_features EXCEPT ![<<lat_center, lon_center>>] =
                                        [served |-> TRUE, features |-> geojson.features]]
    /\ endpoint' = "none"
    /\ pc' = "idle"
    /\ UNCHANGED <<error, inputs, water_change, slope_factor, rainfall_factor, risk_score,
                   regions, geojson, alerts, np_random, region_idx, all_features, all_alerts,
                   items, STAC_CACHE, now, search, tracking>>

\* GET /api/isro/satellite-data: three draws for each point of a 20 x 20 lattice
IsroDraws == 3 * 20 * 20

get_isro_satellite_data ==
    /\ pc = "idle"
    /\ response' = [status |-> 200, value |-> Uniform(RngStep(np_random), 20, 80)]
    /\ np_random' = RngAfter(np_random, IsroDraws)
    /\ UNCHANGED <<pc, error, inputs, water_change, slope_factor, rainfall_factor, risk_score,
                   regions, geojson, alerts, endpoint, first_features, region_idx,
                   all_features, all_alerts, items, STAC_CACHE, now, search, tracking>>

\* GET /api/environmental/risk/national: centres in 1/222 degree
key_regions ==
    << [lat |-> 26 * CoordUnitsPerDegree, lon |-> 92 * CoordUnitsPerDegree,
        name |-> "Brahmaputra River, Assam"],
       [lat |-> (55 * CoordUnitsPerDegree) \div 2, lon |-> (189 * CoordUnitsPerDegree) \div 2,
        name |-> "Northeast River Basin"],
       [lat |-> (61 * CoordUnitsPerDegree) \div 2, lon |-> (159 * CoordUnitsPerDegree) \div 2,
        name |-> "Himalayan Foothills"],
       [lat |-> 25 * CoordUnitsPerDegree, lon |-> 83 * CoordUnitsPerDegree,
        name |-> "Ganga River Basin"],
       [lat |-> 19 * CoordUnitsPerDegree, lon |-> 73 * CoordUnitsPerDegree,
        name |-> "Maharashtra Coast"],
       [lat |-> 13 * CoordUnitsPerDegree, lon |-> 80 * CoordUnitsPerDegree,
        name |-> "Tamil Nadu Coastal"],
       [lat |-> 10 * CoordUnitsPerDegree, lon |-> (153 * CoordUnitsPerDegree) \div 2,
        name |-> "Kerala Backwaters"],
       [lat |-> 21 * CoordUnitsPerDegree, lon |-> 79 * CoordUnitsPerDegree,
        name |-> "Central India Rivers"] >>

\* the request starts: all_features = [], all_alerts = []
NationalRequest ==
    /\ pc = "idle"
    /\ endpoint' = "national"
    /\ region_idx' = 1
    /\ all_features' = <<>> /\ all_alerts' = <<>>
    /\ response' = NoResponse
    /\ pc' = "region"
    /\ UNCHANGED <<error, inputs, water_change, slope_factor, rainfall_factor, risk_score,
                   regions, geojson, alerts, np_random, first_features, items, STAC_CACHE, now, search, tracking>>

\* the head of the loop over key_regions, up to the call of
\* generate_synthetic_satellite_data(lat_center=lat, lon_center=lon, grid_size=30)
NationalRegion ==
    /\ pc = "region" /\ endpoint = "national"
    /\ lat_center' = key_regions[region_idx].lat
    /\ lon_center' = key_regions[region_idx].lon
    /\ old_ndwi' = NoGrid /\ new_ndwi' = NoGrid /\ dem' = NoGrid /\ rainfall' = NoGrid
    /\ FreshAnalysis
    /\ pc' = "generate"
    /\ UNCHANGED <<np_random, endpoint, response, first_features, region_idx, all_features,
                   all_alerts, items, STAC_CACHE, now, search, tracking>>

\* feature["properties"]["region_name"] = region["name"] on the features of geojson
\* themselves, each then appended to all_features
NationalCollectFeatures ==
    /\ pc = "geojson" /\ endpoint = "national"
    /\ LET tagged == [k \in 1 .. Len(geojson.features) |->
                        [geojson.features[k] EXCEPT !.properties =
                            [x \in DOMAIN @ \cup {"region_name"} |->
                                IF x = "region_name" THEN key_regions[region_idx].name
                                ELSE @[x]]]]
       IN  /\ geojson' = [geojson EXCEPT !.features = tagged]
           /\ all_features' = all_features \o tagged
    /\ pc' = "tagged"
    /\ UNCHANGED <<error, inputs, water_change, slope_factor, rainfall_factor, risk_score,
                   regions, alerts, np_random, endpoint, response, first_features, region_idx,
                   all_alerts, items, STAC_CACHE, now, search, tracking>>

\* alert.description = alert.description.replace("Region", region["name"]) on the
\* alerts of region_alerts themselves, each then appended to all_alerts; then the
\* next region
NationalCollectAlerts ==
    /\ pc = "done" /\ endpoint = "national"
    /\ LET renamed == [k \in 1 .. Len(alerts) |->
                         [alerts[k] EXCEPT !.description.place =
                             IF @ = "Region" THEN key_regions[region_idx].name ELSE @]]
       IN  /\ alerts' = renamed
           /\ all_alerts' = all_alerts \o renamed
    /\ region_idx' = region_idx + 1
    /\ pc' = IF region_idx < Len(key_regions) THEN "region" ELSE "collected"
    /\ UNCHANGED <<error, inputs, water_change, slope_factor, rainfall_factor, risk_score,
                   regions, geojson, np_random, endpoint, response, first_features,
                   all_features, items, STAC_CACHE, now, search, tracking>>

\* combined_geojson, overall_confidence and the return
NationalRespond ==
    /\ pc = "collected" /\ endpoint = "national"
    /\ response' = RiskResponse([type |-> "FeatureCollection", features |-> all_features],
                                all_alerts)
    /\ endpoint' = "none"
    /\ pc' = "idle"
    /\ UNCHANGED <<error, inputs, water_change, slope_factor, rainfall_factor, risk_score,
                   regions, geojson, alerts, np_random, first_features, region_idx,
                   all_features, all_alerts, items, STAC_CACHE, now, search, tracking>>

\* ------------------------------------------- GET /api/environmental/risk/real
\* the sampling loop's place for grid index i, j, in 1/222 degree:
\* sample_lat = lat - radius_km/111.0 + (i * deg_per_pixel) and
\* sample_lon = lon - radius_km/111.0 + (j * deg_per_pixel), with
\* deg_per_pixel = (radius_km * 2) / (111.0 * grid_size)
sample_lat(lat, i) ==
    lat - RadiusKm * 2 + (i * RadiusKm * 2 * 2) \div AnalysisGrid

sample_lon(lon, j) ==
    lon - RadiusKm * 2 + (j * RadiusKm * 2 * 2) \div AnalysisGrid

\* lat: float = 26.0, lon: float = 92.0
DefaultCentre == <<26 * CoordUnitsPerDegree, 92 * CoordUnitsPerDegree>>

\* the places <<lat, lon>> a request for the default centre samples
SamplePoints ==
    {<<sample_lat(DefaultCentre[1], p[1]), sample_lon(DefaultCentre[2], p[2])>> :
        p \in Cells(AnalysisGrid, AnalysisGrid)}

\* a STAC item as far as the analysis reads it: its datetime, the places where its
\* bands give a wet NDWI and the places where a band is missing or unreadable
Scene(d, wet, missing) == [datetime |-> d, wet |-> wet, missing |-> missing]

DryScene == Scene(1, {}, {})
\* water along the northern edge of the sampled window
FloodedScene == Scene(2, {q \in SamplePoints : \A r \in SamplePoints : r[1] <= q[1]}, {})
CloudyScene == Scene(3, {}, SamplePoints)

\* what client.search can do: raise, or return a list of items in its own order
SearchOutcomes ==
    {[performed |-> TRUE, raises |-> TRUE, items |-> <<>>]}
    \cup {[performed |-> TRUE, raises |-> FALSE, items |-> list] :
            list \in {<<>>, <<DryScene>>, <<FloodedScene, DryScene>>,
                      <<DryScene, CloudyScene>>, <<CloudyScene, FloodedScene, DryScene>>}}

\* the freshness test with the bound included: an entry exactly 30 minutes old
\* still answers
CacheFresh_Inclusive(e, t) == t - e.time <= CACHE_DURATION

\* datetime.now() - cached_time < CACHE_DURATION
CacheFresh(e, t) == t - e.time < CACHE_DURATION

\* an exception of client.search is let out of stac_search
stac_search_Propagates(cache, key, t, outcome) ==
    LET hit == {e \in cache : e.key = key /\ CacheFresh(e, t)}
    IN  IF hit # {}
        THEN [raised |-> FALSE, contacted |-> FALSE,
              items |-> (CHOOSE e \in hit : TRUE).items, cache |-> cache]
        ELSE IF outcome.raises
        THEN [raised |-> TRUE, contacted |-> TRUE, items |-> <<>>, cache |-> cache]
        ELSE [raised |-> FALSE, contacted |-> TRUE, items |-> outcome.items,
              cache |-> {e \in cache : e.key # key}
                        \cup {[key |-> key, items |-> outcome.items, time |-> t]}]

\* stac_search: a fresh cache entry answers; otherwise the catalogue is searched,
\* the result cached and stale entries dropped once the cache holds more than 50;
\* every exception is caught and answered with []
stac_search(cache, key, t, outcome) ==
    LET hit == {e \in cache : e.key = key /\ CacheFresh(e, t)}
    IN  IF hit # {}
        THEN [raised |-> FALSE, contacted |-> FALSE,
              items |-> (CHOOSE e \in hit : TRUE).items, cache |-> cache]
        ELSE IF outcome.raises
        THEN [raised |-> FALSE, contacted |-> TRUE, items |-> <<>>, cache |-> cache]
        ELSE LET stored == {e \in cache : e.key # key}
                           \cup {[key |-> key, items |-> outcome.items, time |-> t]}
             IN  [raised |-> FALSE, contacted |-> TRUE, items |-> outcome.items,
                  cache |-> IF Cardinality(stored) > CacheLimit
                            THEN {e \in stored : ~(t - e.time > CACHE_DURATION)}
                            ELSE stored]

\* sorted(items, key=datetime): stable, ascending
RECURSIVE items_sorted(_)
items_sorted(list) ==
    IF list = <<>> THEN <<>>
    ELSE LET first == CHOOSE k \in 1 .. Len(list) :
                        /\ \A j \in 1 .. Len(list) : list[k].datetime <= list[j].datetime
                        /\ \A j \in 1 .. k - 1 : list[j].datetime > list[k].datetime
         IN  <<list[first]>> \o items_sorted([j \in 1 .. Len(list) - 1 |->
                                                IF j < first THEN list[j] ELSE list[j + 1]])

\* compute_ndwi_from_satellite(item, lon, lat): <<>> stands for None
compute_ndwi_from_satellite(item, lon, lat) ==
    IF <<lat, lon>> \in item.missing THEN <<>>
    ELSE <<IF <<lat, lon>> \in item.wet THEN 50 ELSE -20>>

\* the sampling loop: val if val is not None else -0.1
SampledGrid(item, lat, lon) ==
    MkGrid(AnalysisGrid, AnalysisGrid,
           [p \in Cells(AnalysisGrid, AnalysisGrid) |->
               LET val == compute_ndwi_from_satellite(item, sample_lon(lon, p[2]),
                                                      sample_lat(lat, p[1]))
               IN  IF val # <<>> THEN val[1] ELSE MissingNdwi])

NoImagery == HTTPException(404, "No satellite imagery found for this location and time period")

\* the handler up to the call of generate_synthetic_satellite_data: the search,
\* the two 404 exits and the sampling of the oldest and the newest item
RealRequest ==
    /\ pc = "idle" /\ now < MaxClock
    /\ \E c \in {DefaultCentre}, outcome \in SearchOutcomes :
         LET t == now + 1
             found == stac_search(STAC_CACHE, <<c[1], c[2], t>>, t, outcome)
             sorted == items_sorted(found.items)
             sampled == ~found.raised /\ Len(found.items) >= 2
         IN  /\ now' = t
             /\ search' = (IF found.contacted THEN outcome ELSE NoSearch)
             /\ STAC_CACHE' = found.cache
             /\ items' = found.items
             /\ lat_center' = c[1] /\ lon_center' = c[2]
             /\ old_ndwi' = (IF sampled THEN SampledGrid(sorted[1], c[1], c[2]) ELSE NoGrid)
             /\ new_ndwi' = (IF sampled THEN SampledGrid(sorted[Len(sorted)], c[1], c[2]) ELSE NoGrid)
             /\ response' =
                  IF found.raised THEN HTTPException(500, "Real analysis error")
                  ELSE IF found.items = <<>> THEN NoImagery
                  ELSE IF Len(sorted) < 2
                  THEN HTTPException(404, "Need at least 2 images for change detection")
                  ELSE NoResponse
             /\ endpoint' = (IF sampled THEN "real" ELSE "none")
             /\ pc' = (IF sampled THEN "generate" ELSE "idle")
    /\ dem' = NoGrid /\ rainfall' = NoGrid
    /\ FreshAnalysis
    /\ UNCHANGED <<np_random, first_features, region_idx, all_features, all_alerts, tracking>>

\* overall_confidence and the return
RealRespond ==
    /\ pc = "done" /\ endpoint = "real"
    /\ response' = RiskResponse(geojson, alerts)
    /\ endpoint' = "none"
    /\ pc' = "idle"
    /\ UNCHANGED <<error, inputs, water_change, slope_factor, rainfall_factor, risk_score,
                   regions, geojson, alerts, np_random, first_features, region_idx,
                   all_features, all_alerts, items, STAC_CACHE, now, search, tracking>>

\* ------------------------------------------------ POST /api/satellite/search
\* the request bodies: collections, bbox, start, end, limit
SearchRequests ==
    {[op |-> "search", collections |-> cs, bbox |-> <<915, 255, 925, 265>>,
      start |-> "2025-01-01", end_ |-> "2025-12-31", limit |-> 40] :
        cs \in {<<>>, <<"sentinel-2-l2a">>, <<"sentinel-2-l2a", "landsat-c2-l2">>}}

\* what client.search answers to a search request

\* cache_key = (str(collections), str(bbox), start, end, str(limit))
cache_key(req) == <<req.collections, req.bbox, req.start, req.end_, req.limit>>

\* except Exception as e: raise HTTPException(500, f"STAC search error: {str(e)}"),
\* which also catches the HTTPException raised inside the try block
SearchHandlerExcept(e) == HTTPException(500, "STAC search error")

\* a search request reaches the handler
SearchArrives ==
    /\ pc = "idle"
    /\ \E req \in SearchRequests : request' = req
    /\ pc' = "search"
    /\ UNCHANGED <<error, inputs, water_change, slope_factor, rainfall_factor, risk_score,
                   regions, geojson, alerts, np_random, endpoint, response, first_features,
                   region_idx, all_features, all_alerts, items, STAC_CACHE, now, search,
                   satellites_db, next_satellite_id>>

\* the handler: the check of collections, stac_search and the return
search_satellite_data ==
    /\ pc = "search"
    /\ \E outcome \in {o \in SearchOutcomes : Len(o.items) <= 1} :
         IF request.collections = <<>>
         THEN /\ response' = SearchHandlerExcept(
                                 HTTPException(400, "At least one collection required"))
              /\ UNCHANGED <<STAC_CACHE, search>>
         ELSE LET found == stac_search(STAC_CACHE, cache_key(request), now, outcome)
              IN  /\ response' = [status |-> 200, items |-> found.items,
                                   count |-> Len(found.items),
                                   collections |-> request.collections]
                  /\ STAC_CACHE' = found.cache
                  /\ search' = (IF found.contacted THEN outcome ELSE NoSearch)
    /\ pc' = "idle"
    /\ UNCHANGED <<error, inputs, water_change, slope_factor, rainfall_factor, risk_score,
                   regions, geojson, alerts, np_random, endpoint, first_features,
                   region_idx, all_features, all_alerts, items, now, tracking>>

\* time passes between requests, TickMinutes at a time
ClockTick ==
    /\ pc = "idle" /\ now + TickMinutes <= MaxMinutes
    /\ now' = now + TickMinutes
    /\ UNCHANGED <<pc, error, inputs, water_change, slope_factor, rainfall_factor, risk_score,
                   regions, geojson, alerts, np_random, endpoint, response, first_features,
                   region_idx, all_features, all_alerts, items, STAC_CACHE, search, tracking>>

InitSearch ==
    /\ pc = "idle"
    /\ Idle
    /\ old_ndwi = NoGrid /\ new_ndwi = NoGrid /\ dem = NoGrid /\ rainfall = NoGrid
    /\ lat_center = 0 /\ lon_center = 0
    /\ ServerIdle

NextSearch == SearchArrives \/ search_satellite_data \/ ClockTick

SpecSearch == InitSearch /\ [][NextSearch]_vars

\* ---------------------------------------------------------- /api/satellites

\* the NORAD check passes whatever the list holds
NoradTaken_Never(db, norad_id) == FALSE

\* any(s["norad_id"] == satellite.norad_id for s in satellites_db)
NoradTaken(db, norad_id) == \E k \in 1 .. Len(db) : db[k].norad_id = norad_id

\* the next id taken from the length of the list after the append
AssignedNext_FromLength(db, next) == Len(db) + 2

\* next_satellite_id += 1
AssignedNext(db, next) == next + 1

\* the head of the list dropped, whatever its id
WithoutId_DropFirst(db, satellite_id) == Tail(db)

\* [s for s in satellites_db if s["id"] != satellite_id]
WithoutId(db, satellite_id) == SelectSeq(db, LAMBDA sat : sat.id # satellite_id)

\* a tracking request reaches its handler
TrackingArrives ==
    /\ pc = "idle"
    /\ \E req \in {[op |-> "add_satellite", name |-> "NEW", norad_id |-> n,
                    color |-> "#00f0ff"] : n \in {25544, 44804, 90001}}
                  \cup {[op |-> "delete_satellite", satellite_id |-> i] :
                           i \in {1, 9, 10, 99}} :
         /\ (req.op = "add_satellite" => next_satellite_id <= MaxSatelliteId)
         /\ request' = req
         /\ pc' = req.op
    /\ UNCHANGED <<error, inputs, water_change, slope_factor, rainfall_factor, risk_score,
                   regions, geojson, alerts, np_random, endpoint, response, first_features,
                   region_idx, all_features, all_alerts, items, STAC_CACHE, now, search,
                   satellites_db, next_satellite_id>>

\* POST /api/satellites
add_satellite ==
    /\ pc = "add_satellite"
    /\ IF NoradTaken(satellites_db, request.norad_id)
       THEN /\ response' = HTTPException(409, "Satellite with this NORAD ID already exists")
            /\ UNCHANGED <<satellites_db, next_satellite_id>>
       ELSE LET new_satellite == [id |-> next_satellite_id, name |-> request.name,
                                  norad_id |-> request.norad_id, color |-> request.color,
                                  is_active |-> TRUE]
            IN  /\ satellites_db' = Append(satellites_db, new_satellite)
                /\ next_satellite_id' = AssignedNext(satellites_db, next_satellite_id)
                /\ response' = [status |-> 200, satellite |-> new_satellite]
    /\ pc' = "idle"
    /\ UNCHANGED <<error, inputs, water_change, slope_factor, rainfall_factor, risk_score,
                   regions, geojson, alerts, np_random, endpoint, first_features,
                   region_idx, all_features, all_alerts, items, STAC_CACHE, now, search,
                   request>>

\* DELETE /api/satellites/{satellite_id}
delete_satellite ==
    /\ pc = "delete_satellite"
    /\ IF \E k \in 1 .. Len(satellites_db) : satellites_db[k].id = request.satellite_id
       THEN LET satellite == satellites_db[CHOOSE k \in 1 .. Len(satellites_db) :
                                   /\ satellites_db[k].id = request.satellite_id
                                   /\ \A j \in 1 .. k - 1 :
                                         satellites_db[j].id # request.satellite_id]
            IN  /\ satellites_db' = WithoutId(satellites_db, request.satellite_id)
                /\ response' = [status |-> 200, success |-> TRUE, removed |-> satellite.name]
       ELSE /\ response' = HTTPException(404, "Satellite not found")
            /\ UNCHANGED satellites_db
    /\ pc' = "idle"
    /\ UNCHANGED <<error, inputs, water_change, slope_factor, rainfall_factor, risk_score,
                   regions, geojson, alerts, np_random, endpoint, first_features,
                   region_idx, all_features, all_alerts, items, STAC_CACHE, now, search,
                   request, next_satellite_id>>

NextSatellites == TrackingArrives \/ add_satellite \/ delete_satellite

SpecSatellites == InitSearch /\ [][NextSatellites]_vars

InitServer ==
    /\ pc = "idle"
    /\ Idle
    /\ old_ndwi = NoGrid /\ new_ndwi = NoGrid /\ dem = NoGrid /\ rainfall = NoGrid
    /\ lat_center = 0 /\ lon_center = 0
    /\ np_random \in 0 .. RngModulus - 1
    /\ endpoint = "none"
    /\ response = NoResponse
    /\ first_features = [c \in Centers |-> NotServed]
    /\ region_idx = 0
    /\ all_features = <<>> /\ all_alerts = <<>>
    /\ items = <<>>
    /\ STAC_CACHE = {}
    /\ now = 0
    /\ search = NoSearch
    /\ TrackingIdle

NextServer ==
    \/ RiskRequest
    \/ SyntheticData
    \/ DetectWaterChange
    \/ CalculateSlopeFactor
    \/ CalculateRainfallFactor
    \/ CalculateRiskScore
    \/ GenerateRiskGeojson
    \/ GenerateAlerts
    \/ RiskRespond
    \/ NationalRequest
    \/ NationalRegion
    \/ NationalCollectFeatures
    \/ NationalCollectAlerts
    \/ NationalRespond
    \/ RealRequest
    \/ RealRespond
    \/ get_isro_satellite_data

SpecServer == InitServer /\ [][NextServer]_vars

\* one analysis on four grids whose shapes need not agree
InputShapes == {<<Rows, Cols>>, <<1, Cols>>, <<Rows, 1>>, <<Rows - 1, Cols>>}

InitShapes ==
    /\ pc = "start"
    /\ ServerIdle
    /\ Idle
    /\ \E so \in InputShapes, sn \in InputShapes, sd \in InputShapes, sr \in InputShapes,
          w \in {10, 55} :
        /\ old_ndwi = UniformGrid(so[1], so[2], 10)
        /\ new_ndwi = UniformGrid(sn[1], sn[2], w)
        /\ dem = DemGrid(sd[1], sd[2], 120, 173, 1)
        /\ rainfall = RainGrid(sr[1], sr[2], 100, 150)
    /\ lat_center = 26 * CoordUnitsPerDegree
    /\ lon_center = 92 * CoordUnitsPerDegree

SpecShapes == InitShapes /\ [][Next]_vars

\* ================================================================== claims

\* ---- helpers of the claims, stated without the operators they check
Levels == {"HIGH", "MEDIUM", "LOW"}

Rank(level) == CASE level = "HIGH" -> 0 [] level = "MEDIUM" -> 1 [] level = "LOW" -> 2

\* the cells of the grid within one step of p, p included
InGridNeighbourhood(g, p) ==
    {q \in GridCells(g) : q[1] - p[1] \in {-1, 0, 1} /\ q[2] - p[2] \in {-1, 0, 1}}

\* the bands whose half-open range holds the score of p
BandsOf(p) ==
    {k \in 1 .. Len(risk_levels) :
        /\ risk_score.at[p] >= risk_levels[k].min_risk * FP
        /\ risk_score.at[p] < risk_levels[k].max_risk * FP}

\* the cells of the score grid in the band of the given name
InBand(level) ==
    LET band == CHOOSE b \in {risk_levels[k] : k \in 1 .. Len(risk_levels)} : b.level = level
    IN  {p \in GridCells(risk_score) :
            risk_score.at[p] >= band.min_risk * FP /\ risk_score.at[p] < band.max_risk * FP}

\* p and q share an edge or a corner
Touch(p, q) == p # q /\ p[1] - q[1] \in {-1, 0, 1} /\ p[2] - q[2] \in {-1, 0, 1}

\* S cannot be split in two parts that do not touch
Connected(S) ==
    \A T \in SUBSET S : (T # {} /\ T # S) => \E p \in T, q \in S \ T : Touch(p, q)

IsComponent(S, mask) ==
    /\ S # {} /\ S \subseteq mask
    /\ Connected(S)
    /\ \A p \in S, q \in mask : Touch(p, q) => q \in S

ComponentsOf(mask) == {S \in SUBSET mask : IsComponent(S, mask)}

RowsOf(S) == {p[1] : p \in S}
ColsOf(S) == {p[2] : p \in S}
Least(S) == CHOOSE x \in S : \A y \in S : x <= y
Greatest(S) == CHOOSE x \in S : \A y \in S : x >= y

\* the ring of the box (minRow, minCol, maxRow, maxCol), 1/111 degree being 2 units
RingOfBox(minRow, minCol, maxRow, maxCol) ==
    LET latMax == lat_center - 2 * minRow
        latMin == lat_center - 2 * maxRow
        lonMin == lon_center + 2 * minCol
        lonMax == lon_center + 2 * maxCol
    IN  << <<lonMin, latMin>>, <<lonMax, latMin>>, <<lonMax, latMax>>,
           <<lonMin, latMax>>, <<lonMin, latMin>> >>

SameShapes ==
    /\ Shape(old_ndwi) = Shape(new_ndwi)
    /\ Shape(new_ndwi) = Shape(dem)
    /\ Shape(dem) = Shape(rainfall)

AtThresholdEverywhere ==
    \A p \in GridCells(new_ndwi) : new_ndwi.at[p] - old_ndwi.at[p] = 20

C8_ExpectedScore(p) ==
    LET raw == IF water_change.at[p]
               THEN 50 * FP + slope_factor.at[p] + rainfall_factor.at[p]
               ELSE IF \E q \in InGridNeighbourhood(water_change, p) : water_change.at[q]
                    THEN 10 * FP
                    ELSE 0
    IN  IF raw < 0 THEN 0 ELSE IF raw > 100 * FP THEN 100 * FP ELSE raw

\* ---------------------------------------------------------------------- C1
\* C1: for every change mask and every pair of factor grids (slope factor in
\* [0,25], rainfall factor in [0,15]), every cell of the grid returned by
\* calculate_risk_score lies in [0,100].
C1_RiskScoreInRange ==
    pc = "scored" =>
        /\ Shape(risk_score) = Shape(water_change)
        /\ \A p \in GridCells(risk_score) :
            risk_score.at[p] >= 0 /\ risk_score.at[p] <= 100 * FP

\* C1 witness: a scored grid holding the largest flagged score, 50 + 25 + 15,
\* beside a neighbour that carries only the proximity bonus
C1_Witness ==
    /\ pc = "scored"
    /\ \E p \in GridCells(risk_score), q \in GridCells(risk_score) :
        /\ water_change.at[p] /\ slope_factor.at[p] = 25 * FP /\ rainfall_factor.at[p] = 15 * FP
        /\ risk_score.at[p] = 90 * FP
        /\ ~water_change.at[q] /\ risk_score.at[q] = 10 * FP

\* ---------------------------------------------------------------------- C2
\* C2: for every slope angle in [0, 90) degrees, the 15-30 degree segment and the
\* breakpoint 30 included, the value of the piecewise remap in
\* calculate_slope_factor lies in [0,25] and never exceeds 25.
C2_SlopeFactorInRange ==
    pc = "sloped" =>
        \A p \in GridCells(slope_factor) :
            slope_factor.at[p] >= 0 /\ slope_factor.at[p] <= 25 * FP

\* ---------------------------------------------------------------------- C3
\* C3: in generate_risk_geojson, for every score grid with values in [0,100],
\* each cell with score >= 40 satisfies exactly one of the three band masks, and
\* each cell with score < 40 satisfies none and is a member of no emitted region.
C3_BandPartition ==
    pc = "geojson" =>
        \A p \in GridCells(risk_score) :
            /\ risk_score.at[p] >= 40 * FP => Cardinality(BandsOf(p)) = 1
            /\ risk_score.at[p] < 40 * FP =>
                /\ BandsOf(p) = {}
                /\ \A k \in 1 .. Len(regions) : p \notin regions[k].cells

\* ---------------------------------------------------------------------- C4
\* C4: every feature emitted by generate_risk_geojson corresponds to a connected
\* component of at least 3 cells (area_km2 >= 3); components of 1 or 2 cells are
\* dropped without error and without affecting other regions.
C4_MinimumRegionSize ==
    pc = "geojson" =>
        /\ error = "none"
        /\ Len(geojson.features) = Len(regions)
        /\ \A k \in 1 .. Len(regions) :
            /\ IsComponent(regions[k].cells, InBand(regions[k].level))
            /\ Cardinality(regions[k].cells) >= 3
            /\ geojson.features[k].properties.area_km2 = Cardinality(regions[k].cells)
            /\ geojson.features[k].properties.risk_level = regions[k].level
        /\ \A l \in Levels : \A S \in ComponentsOf(InBand(l)) :
            Cardinality(S) >= 3 =>
                Cardinality({k \in 1 .. Len(regions) :
                                regions[k].level = l /\ regions[k].cells = S}) = 1

\* C4 witness: a band with a region of three cells or more and a separate
\* component of one or two cells: one feature comes out, for the region
C4_Witness ==
    /\ pc = "geojson"
    /\ Len(geojson.features) = 1
    /\ geojson.features[1].properties.area_km2 >= 3
    /\ \E S \in ComponentsOf(InBand(regions[1].level)) : Cardinality(S) < 3

\* ---------------------------------------------------------------------- C5
\* C5: for every feature collection, the list returned by
\* generate_alerts_from_geojson is ordered so that for each adjacent pair
\* rank(alerts[i].level) <= rank(alerts[i+1].level) with HIGH=0, MEDIUM=1, LOW=2,
\* and when the ranks are equal alerts[i].area_km2 >= alerts[i+1].area_km2.
C5_AlertOrdering ==
    pc = "done" =>
        /\ Len(alerts) = Len(geojson.features)
        /\ \A i \in 1 .. Len(alerts) - 1 :
            /\ Rank(alerts[i].level) <= Rank(alerts[i + 1].level)
            /\ Rank(alerts[i].level) = Rank(alerts[i + 1].level) =>
                alerts[i].area_km2 >= alerts[i + 1].area_km2

\* C5 witness: a feature list that arrives in the opposite order, a LOW region
\* first, then a small and a large HIGH region, comes out reversed
C5_Witness ==
    /\ pc = "done"
    /\ Len(geojson.features) = 3
    /\ geojson.features[1].properties.risk_level = "LOW"
    /\ geojson.features[2].properties.risk_level = "HIGH"
    /\ geojson.features[3].properties.risk_level = "HIGH"
    /\ geojson.features[2].properties.area_km2 < geojson.features[3].properties.area_km2
    /\ alerts[1].id = 2 /\ alerts[2].id = 1 /\ alerts[3].id = 0

\* ---------------------------------------------------------------------- C6
\* C6: when the four input grids of one analysis (old water index, new water
\* index, elevation, rainfall) do not all have the same shape, the analysis fails
\* with a ShapeMismatch error before any factor, score or region is computed, and
\* no output is produced.  (Any exception is taken for the ShapeMismatch error:
\* the name is not held against the code.  The change mask is neither a factor,
\* a score nor a region.)
C6_ShapeMismatchFailsFast ==
    ~SameShapes =>
        /\ pc \in {"start", "detected", "failed"}
        /\ pc = "failed" => error # "none"
        /\ slope_factor = NoGrid /\ rainfall_factor = NoGrid /\ risk_score = NoGrid
        /\ regions = <<>> /\ geojson.features = <<>> /\ alerts = <<>>

\* ---------------------------------------------------------------------- C7
\* C7: detect_water_change marks cell (i,j) true iff (new[i,j] - old[i,j]) >
\* threshold AND new[i,j] > 0.3, both comparisons strict: a grid pair whose
\* difference equals the threshold everywhere yields an all-false mask, and the
\* pipeline then emits no feature and no alert.
C7_StrictWaterChange ==
    /\ pc \notin {"start", "failed"} =>
        /\ Shape(water_change) = Shape(new_ndwi)
        /\ \A p \in GridCells(new_ndwi) :
            water_change.at[p] <=>
                (new_ndwi.at[p] - old_ndwi.at[p] > 20 /\ new_ndwi.at[p] > 30)
    /\ (AtThresholdEverywhere /\ pc \notin {"start", "failed"}) =>
        /\ \A p \in GridCells(water_change) : ~water_change.at[p]
        /\ pc \in {"geojson", "done"} => geojson.features = <<>>
        /\ pc = "done" => alerts = <<>>

\* C7 witness: a finished analysis of two wet grids (0.35 and 0.55) that differ
\* by exactly 0.2 in every cell
C7_Witness ==
    /\ pc = "done"
    /\ AtThresholdEverywhere
    /\ \A p \in GridCells(new_ndwi) : new_ndwi.at[p] > 30
    /\ geojson.features = <<>> /\ alerts = <<>>

\* ---------------------------------------------------------------------- C8
\* C8: calculate_risk_score gives each flagged cell exactly 50 + its slope factor +
\* its rainfall factor (no proximity bonus), and each unflagged cell 10 if at least
\* one cell of its 3x3 neighbourhood inside the grid is flagged and 0 otherwise,
\* border and corner cells included; the result is clamped to [0,100].
C8_ScoreFormula ==
    pc = "scored" => \A p \in GridCells(risk_score) : risk_score.at[p] = C8_ExpectedScore(p)

\* C8 witness: one flagged cell in a corner: its neighbours score 10, and the
\* cells of the opposite border, which it meets only around the edge, score 0
C8_Witness ==
    /\ pc = "scored"
    /\ \A p \in GridCells(water_change) : water_change.at[p] <=> p = <<0, 0>>
    /\ slope_factor.at[<<0, 0>>] = 25 * FP
    /\ risk_score.at[<<0, 0>>] = 75 * FP + rainfall_factor.at[<<0, 0>>]
    /\ risk_score.at[<<1, 1>>] = 10 * FP /\ risk_score.at[<<0, 1>>] = 10 * FP
    /\ risk_score.at[<<Rows - 1, Cols - 1>>] = 0 /\ risk_score.at[<<0, Cols - 1>>] = 0

\* ---------------------------------------------------------------------- C9
\* C9: within one risk band, the regions found by generate_risk_geojson are
\* exactly the maximal 8-connected components of the band mask: two in-band cells
\* that touch by an edge or a corner always belong to the same region, two cells
\* of one region are always joined by a chain of 8-adjacent in-band cells, and
\* cells of different bands are never in the same region.
C9_EightConnectedRegions ==
    pc = "geojson" =>
        \A k \in 1 .. Len(regions) :
            LET R == regions[k].cells
                mask == InBand(regions[k].level)
            IN  /\ R \subseteq mask
                /\ \A p \in R, q \in mask : Touch(p, q) => q \in R
                /\ Connected(R)
                /\ \A j \in 1 .. Len(regions) : j # k => R \cap regions[j].cells = {}

\* C9 witness: a region with a cell that meets the rest at corners only, beside a
\* cell of another band
C9_Witness ==
    /\ pc = "geojson"
    /\ \E k \in 1 .. Len(regions) :
        LET R == regions[k].cells
        IN  /\ \E p \in R : \A q \in R : Touch(p, q) => (p[1] # q[1] /\ p[2] # q[2])
            /\ \E p \in R, q \in GridCells(risk_score) \ R :
                Touch(p, q) /\ risk_score.at[q] >= 40 * FP /\ risk_score.at[q] < 100 * FP

\* --------------------------------------------------------------------- C10
\* C10 as stated: with minRow/maxRow and minCol/maxCol the minimum and maximum row
\* and column indices of the region's cells, the polygon is the closed 5-point
\* ring [(lonMin,latMin),(lonMax,latMin),(lonMax,latMax),(lonMin,latMax),
\* (lonMin,latMin)] with lat_max = centerLat - minRow/111, lat_min = centerLat -
\* maxRow/111, lon_min = centerLon + minCol/111, lon_max = centerLon + maxCol/111.
C10_RingOfExtremeIndices ==
    pc = "geojson" =>
        \A k \in 1 .. Len(regions) :
            geojson.features[k].geometry.coordinates =
                << RingOfBox(Least(RowsOf(regions[k].cells)), Least(ColsOf(regions[k].cells)),
                             Greatest(RowsOf(regions[k].cells)),
                             Greatest(ColsOf(regions[k].cells))) >>

\* C10 amended: the same ring, with maxRow and maxCol one more than the greatest
\* row and column index of the region's cells (the half-open box of region.bbox).
C10_RingOfHalfOpenBox ==
    pc = "geojson" =>
        /\ Len(geojson.features) = Len(regions)
        /\ \A k \in 1 .. Len(regions) :
            /\ geojson.features[k].geometry.type = "Polygon"
            /\ geojson.features[k].geometry.coordinates =
                << RingOfBox(Least(RowsOf(regions[k].cells)), Least(ColsOf(regions[k].cells)),
                             Greatest(RowsOf(regions[k].cells)) + 1,
                             Greatest(ColsOf(regions[k].cells)) + 1) >>

\* C10 witness: a region on rows 1..2 and columns 1..2, projected from the centre
\* (26.0, 92.0): latitudes 26 - 3/111 .. 26 - 1/111, longitudes 92 + 1/111 .. 92 + 3/111
C10_Witness ==
    /\ pc = "geojson"
    /\ lat_center = 26 * 222 /\ lon_center = 92 * 222
    /\ \E k \in 1 .. Len(regions) :
        /\ RowsOf(regions[k].cells) = {1, 2} /\ ColsOf(regions[k].cells) = {1, 2}
        /\ geojson.features[k].geometry.coordinates[1][1] = <<92 * 222 + 2, 26 * 222 - 6>>
        /\ geojson.features[k].geometry.coordinates[1][3] = <<92 * 222 + 6, 26 * 222 - 2>>

\* --------------------------------------------------------------------- C11
\* the feature an alert was made from: the one at the index its id carries
FeatureOf(alert) == geojson.features[alert.id + 1]

\* x/1 = a.num / a.den, with a.den > 0
FracIs(a, x) == a.num = x * a.den

\* C11: for every feature, the alert's confidence equals
\* clamp(50, 95, 60 + (risk_score - 40) * 0.7), so every alert confidence lies in
\* [50,95]; a score of 58 gives confidence 72.6.
C11_ConfidenceClamp ==
    pc = "done" =>
        \A i \in 1 .. Len(alerts) :
            LET score == FeatureOf(alerts[i]).properties.risk_score
                conf == alerts[i].confidence
                \* ten times 60 + (score - 40) * 0.7, over score.den
                raw10 == 600 * FP * score.den + (score.num - 40 * FP * score.den) * 7
            IN  /\ conf.den > 0 /\ score.den > 0
                /\ conf.num >= 50 * FP * conf.den /\ conf.num <= 95 * FP * conf.den
                /\ raw10 < 500 * FP * score.den => FracIs(conf, 50 * FP)
                /\ raw10 > 950 * FP * score.den => FracIs(conf, 95 * FP)
                /\ (raw10 >= 500 * FP * score.den /\ raw10 <= 950 * FP * score.den) =>
                        conf.num * 10 * score.den = raw10 * conf.den
                /\ FracIs(score, 58 * FP) => conf.num * 10 = 726 * FP * conf.den

\* C11 witness: three alerts, from scores 0, 58 and 100: confidences 50, 72.6, 95
C11_Witness ==
    /\ pc = "done"
    /\ Len(alerts) = 3
    /\ \E i, j, k \in 1 .. 3 :
        /\ FracIs(FeatureOf(alerts[i]).properties.risk_score, 0)
        /\ FracIs(alerts[i].confidence, 50 * FP)
        /\ FracIs(FeatureOf(alerts[j]).properties.risk_score, 58 * FP)
        /\ alerts[j].confidence.num * 10 = 726 * FP * alerts[j].confidence.den
        /\ FracIs(FeatureOf(alerts[k]).properties.risk_score, 100 * FP)
        /\ FracIs(alerts[k].confidence, 95 * FP)

\* --------------------------------------------------------------------- C13
Bijections(n) == {pi \in [1 .. n -> 1 .. n] : \A i, j \in 1 .. n : pi[i] = pi[j] => i = j}

\* C13: generate_alerts_from_geojson returns exactly one alert per input feature
\* and no others: the alert list is a permutation image of the feature list in
\* which each alert's level, area_km2 and location (lat, lon) equal the risk_level,
\* area_km2 and center_lat/center_lon of its feature.
C13_OneAlertPerFeature ==
    pc = "done" =>
        /\ Len(alerts) = Len(geojson.features)
        /\ \E pi \in Bijections(Len(alerts)) :
            \A i \in 1 .. Len(alerts) :
                LET props == geojson.features[pi[i]].properties
                IN  /\ alerts[i].level = props.risk_level
                    /\ alerts[i].area_km2 = props.area_km2
                    /\ alerts[i].location.lat = props.center_lat
                    /\ alerts[i].location.lon = props.center_lon

\* C13 witness: three features that differ pairwise in level or area, so that only
\* one pairing of alerts and features exists, and it is not the identity
C13_Witness ==
    /\ pc = "done"
    /\ Len(geojson.features) = 3 /\ Len(alerts) = 3
    /\ \A i, j \in 1 .. 3 :
        i # j => \/ geojson.features[i].properties.risk_level # geojson.features[j].properties.risk_level
                 \/ geojson.features[i].properties.area_km2 # geojson.features[j].properties.area_km2
    /\ alerts[1].level # geojson.features[1].properties.risk_level
    /\ alerts[3].area_km2 # geojson.features[3].properties.area_km2

\* --------------------------------------------------------------------- C14
\* C14: alert identifiers are monotonically increasing: in the list returned by
\* generate_alerts_from_geojson, the sequence index embedded in each alert's id
\* (ALERT-<date>-<index>) is strictly greater than that of the alert before it.
C14_IdsIncreaseInReturnedList ==
    pc = "done" => \A i \in 1 .. Len(alerts) - 1 : alerts[i].id < alerts[i + 1].id

\* --------------------------------------------------------------------- C17
\* C17: bands are processed in the order HIGH, MEDIUM, LOW: in the feature list
\* returned by generate_risk_geojson every HIGH feature precedes every MEDIUM
\* feature, and every MEDIUM feature precedes every LOW feature.
C17_BandOrder ==
    pc \in {"geojson", "done"} =>
        \A i, j \in 1 .. Len(geojson.features) :
            Rank(geojson.features[i].properties.risk_level)
                < Rank(geojson.features[j].properties.risk_level) => i < j

\* C17 witness: a grid with a LOW row on top, a MEDIUM row below it and a HIGH row
\* at the bottom gives the features HIGH, MEDIUM, LOW
C17_Witness ==
    /\ pc = "geojson"
    /\ risk_score.at[<<0, 0>>] = 50 * FP
    /\ risk_score.at[<<1, 0>>] = 70 * FP
    /\ risk_score.at[<<2, 0>>] = 90 * FP
    /\ Len(geojson.features) >= 3
    /\ geojson.features[1].properties.risk_level = "HIGH"
    /\ geojson.features[2].properties.risk_level = "MEDIUM"
    /\ geojson.features[3].properties.risk_level = "LOW"

\* --------------------------------------------------------------------- C12
\* C12: running the pipeline twice on identical input grids and centre yields
\* identical feature lists, in the same order, whatever other requests ran in
\* between; the same holds for two /api/environmental/risk requests with equal
\* lat, lon and grid_size.
C12_SameRequestSameFeatures ==
    (endpoint = "risk" /\ pc \in {"geojson", "done"}
        /\ first_features[<<lat_center, lon_center>>].served) =>
            geojson.features = first_features[<<lat_center, lon_center>>].features

\* C12 witness: a request for a centre already served, after a request for the
\* other centre, finishing with a feature
C12_Witness ==
    /\ endpoint = "risk" /\ pc = "done"
    /\ \A c \in Centers : first_features[c].served
    /\ geojson.features # <<>>
    /\ geojson.features = first_features[<<lat_center, lon_center>>].features

\* --------------------------------------------------------------------- C15
\* C15: no stage modifies data produced by another stage: each of the six stages
\* leaves its input grids / feature collection unchanged, and within every risk
\* endpoint the features returned by generate_risk_geojson and the alerts returned
\* by generate_alerts_from_geojson are not altered after they are produced.
C15_ProducedDataIsLeftAlone ==
    [][/\ (pc \in {"start", "detected", "sloped", "rained", "scored", "geojson", "tagged"})
            => inputs' = inputs
       /\ (pc \in {"detected", "sloped", "rained", "scored", "geojson", "tagged"})
            => water_change' = water_change
       /\ (pc \in {"sloped", "rained", "scored", "geojson", "tagged"})
            => slope_factor' = slope_factor
       /\ (pc \in {"rained", "scored", "geojson", "tagged"})
            => rainfall_factor' = rainfall_factor
       /\ (pc \in {"scored", "geojson", "tagged"}) => risk_score' = risk_score
       /\ (pc \in {"geojson", "tagged", "done"}) => geojson' = geojson
       /\ (pc = "done") => alerts' = alerts]_vars

\* --------------------------------------------------------------------- C16
\* no cell of the score grid is in any band
NoCellInAnyBand == \A p \in GridCells(risk_score) : BandsOf(p) = {}

NoRiskResponse ==
    [status |-> 200, geojson |-> NoGeojson, alerts |-> <<>>, confidence |-> FracOf(0)]

\* C16: when the score grid has no cell in any band, every band is skipped,
\* generate_risk_geojson returns a FeatureCollection with an empty feature list,
\* the alert list is empty, and each risk endpoint reports overall confidence 0.0
\* and completes without an error.
C16_NoRiskIsAValidResult ==
    /\ []((pc \in {"geojson", "tagged", "done"} /\ NoCellInAnyBand) =>
            (error = "none" /\ geojson = NoGeojson /\ (pc = "done" => alerts = <<>>)))
    /\ [][/\ ((pc = "done" /\ endpoint \in {"risk", "real"} /\ NoCellInAnyBand)
                => (pc' = "idle" /\ response' = NoRiskResponse))
           /\ ((pc = "collected" /\ all_alerts = <<>>)
                => (pc' = "idle" /\ response'.status = 200
                    /\ response'.confidence = FracOf(0)))]_vars

\* C16 witness: a real analysis of two scenes without a change of water ended in
\* the empty result
C16_Witness ==
    /\ pc = "idle" /\ response = NoRiskResponse
    /\ risk_score # NoGrid /\ NoCellInAnyBand
    /\ Len(items) >= 2

\* --------------------------------------------------------------------- C19
\* C19: in the real-data risk analysis, whenever the imagery search raises an
\* error or returns no item, the request ends with the 404 'No satellite imagery
\* found' outcome (not a 500 and not a result), and no change detection, scoring
\* or polygon output is produced for that request.
C19_NoImageryIs404 ==
    [][(now' # now /\ (search'.raises \/ search'.items = <<>>)) =>
          /\ response' = NoImagery
          /\ pc' = "idle"
          /\ water_change' = NoGrid /\ risk_score' = NoGrid
          /\ geojson' = NoGeojson /\ alerts' = <<>>]_vars

\* C19 witness: a request whose search raised has been answered
C19_Witness ==
    /\ search.performed /\ search.raises
    /\ pc = "idle" /\ response = NoImagery

\* --------------------------------------------------------------------- C18
\* C18: an analysis shares no mutable state with other requests: executing a risk
\* analysis (generate_synthetic_satellite_data included) reads and writes only
\* data allocated for that request and leaves every process-wide variable, the
\* state of the global random generator used by other endpoints included, as it
\* found it.
C18_AnalysisLeavesGeneratorAlone ==
    [][(pc # "idle") => np_random' = np_random]_vars

\* --------------------------------------------------------------------- C20
\* C20: an unflagged cell lying inside a cluster of flagged cells (at least one
\* flagged 3x3 neighbour) receives, through the proximity bonus, an elevated score
\* that makes it a member of a risk-band region together with the surrounding
\* cluster, so the emitted regions have no gap at that cell.
C20_NoGapInsideCluster ==
    pc \in {"geojson", "done"} =>
        \A k \in 1 .. Len(regions) :
            \A p \in GridCells(water_change) :
                (~water_change.at[p]
                    /\ \E q \in regions[k].cells : Touch(p, q) /\ water_change.at[q])
                        => p \in regions[k].cells

\* --------------------------------------------------------------------- C21
\* C21: the alert list returned by the national analysis endpoint, which
\* concatenates the alerts of its eight regions, satisfies the alert ordering:
\* rank(alerts[i].level) <= rank(alerts[i+1].level), and alerts[i].area_km2 >=
\* alerts[i+1].area_km2 when the ranks are equal.
C21_NationalAlertOrdering ==
    pc = "collected" =>
        \A i \in 1 .. Len(all_alerts) - 1 :
            /\ Rank(all_alerts[i].level) <= Rank(all_alerts[i + 1].level)
            /\ (Rank(all_alerts[i].level) = Rank(all_alerts[i + 1].level)
                    => all_alerts[i].area_km2 >= all_alerts[i + 1].area_km2)

\* --------------------------------------------------------------------- C22
\* C22: in the real-data analysis, the water-index value stored at grid index
\* (i, j) is sampled at a location consistent with the projector's convention: row
\* index i increases southward and column index j increases eastward, so a larger
\* i is sampled at a smaller latitude, matching lat = centerLat - row/111.
C22_SamplingFollowsProjector ==
    (endpoint = "real" /\ pc # "idle") =>
        \A p \in GridCells(new_ndwi), q \in GridCells(new_ndwi) :
            /\ (p[1] < q[1] => sample_lat(lat_center, q[1]) < sample_lat(lat_center, p[1]))
            /\ (p[2] < q[2] => sample_lon(lon_center, q[2]) > sample_lon(lon_center, p[2]))

\* --------------------------------------------------------------------- C23
\* C23: a POST /api/satellite/search request whose collections list is empty is
\* rejected with HTTP status 400 'At least one collection required', and
\* stac_search is not called for it.
C23_EmptyCollectionsIs400 ==
    [][(pc = "search" /\ request.collections = <<>>) =>
          /\ response' = HTTPException(400, "At least one collection required")
          /\ STAC_CACHE' = STAC_CACHE /\ search' = search]_vars

\* --------------------------------------------------------------------- C26
\* the cache entries stored for the request being handled
EntriesOfRequest == {e \in STAC_CACHE : e.key = cache_key(request)}

\* C26: stac_search returns a stored result without contacting the STAC service
\* only when an entry for the same (collections, bbox, start, end, limit) was
\* stored less than 30 minutes earlier; an entry that is 30 minutes old or older
\* is never returned, also when the refreshing search fails (the call then returns
\* an empty list), and a failed search never stores or overwrites a cache entry.
C26_CacheServesOnlyFreshEntries ==
    [][(pc = "search" /\ request.collections # <<>>) =>
          /\ (~search'.performed =>
                 /\ \E e \in EntriesOfRequest :
                       now - e.time < CACHE_DURATION /\ response'.items = e.items
                 /\ STAC_CACHE' = STAC_CACHE)
          /\ ((\A e \in EntriesOfRequest : now - e.time >= CACHE_DURATION) =>
                 /\ search'.performed
                 /\ response'.items = (IF search'.raises THEN <<>> ELSE search'.items))
          /\ ((search'.performed /\ search'.raises) => STAC_CACHE' = STAC_CACHE)]_vars

\* C26 witness: the refreshing search for a request whose entry had gone stale
\* failed, and the request was answered with the empty list
C26_Witness ==
    /\ pc = "idle" /\ request # [op |-> "none"] /\ request.op = "search"
    /\ search.performed /\ search.raises
    /\ response.status = 200 /\ response.items = <<>>
    /\ \E e \in EntriesOfRequest : now - e.time >= CACHE_DURATION /\ e.items # <<>>

\* --------------------------------------------------------------------- C24
\* C24: after any sequence of add_satellite and delete_satellite calls, no two
\* entries of satellites_db have the same norad_id: add_satellite with a norad_id
\* already present fails with 409 and leaves satellites_db and next_satellite_id
\* unchanged, and after that satellite is deleted an add with the same norad_id
\* succeeds.
C24_NoradIdsAreUnique ==
    /\ [](\A i \in 1 .. Len(satellites_db), j \in 1 .. Len(satellites_db) :
            i # j => satellites_db[i].norad_id # satellites_db[j].norad_id)
    /\ [][pc = "add_satellite" =>
            IF \E k \in 1 .. Len(satellites_db) :
                    satellites_db[k].norad_id = request.norad_id
            THEN /\ response'.status = 409
                 /\ satellites_db' = satellites_db
                 /\ next_satellite_id' = next_satellite_id
            ELSE /\ response'.status = 200
                 /\ Len(satellites_db') = Len(satellites_db) + 1
                 /\ satellites_db'[Len(satellites_db')].norad_id = request.norad_id]_vars

\* C24 witness: the NORAD id of a default satellite that was deleted is tracked
\* again under a new id
C24_Witness ==
    /\ pc = "idle"
    /\ \E k \in 1 .. Len(satellites_db) :
          /\ satellites_db[k].norad_id = DEFAULT_SATELLITES[1].norad_id
          /\ satellites_db[k].id > Len(DEFAULT_SATELLITES)

\* --------------------------------------------------------------------- C25
\* C25: delete_satellite(id) for an id not present in satellites_db fails with 404
\* and leaves satellites_db unchanged; for a present id it removes exactly the
\* entry with that id, keeps every other entry and their order, and never changes
\* next_satellite_id.
C25_DeleteRemovesOneEntry ==
    [][pc = "delete_satellite" =>
          /\ next_satellite_id' = next_satellite_id
          /\ IF \E k \in 1 .. Len(satellites_db) :
                    satellites_db[k].id = request.satellite_id
             THEN \E k \in 1 .. Len(satellites_db) :
                     /\ satellites_db[k].id = request.satellite_id
                     /\ satellites_db' = [j \in 1 .. Len(satellites_db) - 1 |->
                                            IF j < k THEN satellites_db[j]
                                            ELSE satellites_db[j + 1]]
             ELSE /\ response'.status = 404
                  /\ satellites_db' = satellites_db]_vars

\* C25 witness: a satellite added at run time was removed from between others
C25_Witness ==
    /\ pc = "idle" /\ request.op = "delete_satellite" /\ response.status = 200
    /\ request.satellite_id = Len(DEFAULT_SATELLITES) + 1
    /\ \E k \in 1 .. Len(satellites_db) : satellites_db[k].id > request.satellite_id
    /\ \E k \in 1 .. Len(satellites_db) : satellites_db[k].id < request.satellite_id

\* --------------------------------------------------------------------- C27
\* C27: the ids given out by add_satellite are strictly increasing over the
\* lifetime of the process: after any sequence of add_satellite and
\* delete_satellite calls, no two entries of satellites_db share an id and an id
\* that was once assigned, including that of a deleted satellite, is never
\* assigned again.
C27_IdsAreNeverReused ==
    /\ [](/\ \A i \in 1 .. Len(satellites_db), j \in 1 .. Len(satellites_db) :
               i # j => satellites_db[i].id # satellites_db[j].id
          /\ \A k \in 1 .. Len(satellites_db) : satellites_db[k].id < next_satellite_id)
    /\ [][/\ next_satellite_id' >= next_satellite_id
           /\ (Len(satellites_db') > Len(satellites_db) =>
                  /\ satellites_db'[Len(satellites_db')].id = next_satellite_id
                  /\ next_satellite_id' > next_satellite_id)]_vars

\* C27 witness: a satellite was added after an added one had been deleted
C27_Witness ==
    /\ pc = "idle"
    /\ \E k \in 1 .. Len(satellites_db) :
          satellites_db[k].id = Len(DEFAULT_SATELLITES) + 2
    /\ \A k \in 1 .. Len(satellites_db) :
          satellites_db[k].id # Len(DEFAULT_SATELLITES) + 1

\* --------------------------------------------------------------------- C28
\* C28: every feature's risk_score, the mean of the region's cells, lies in the
\* half-open range of the feature's band ([80, 100) for HIGH, [60, 80) for MEDIUM,
\* [40, 60) for LOW); hence the confidence of every alert derived from a pipeline
\* feature is at least 60 and the lower clamp at 50 never decides the value.
BandOf(level) ==
    CHOOSE k \in 1 .. Len(risk_levels) : risk_levels[k].level = level

C28_ScoreLiesInItsBand ==
    /\ (pc \in {"geojson", "done"} =>
          \A k \in 1 .. Len(geojson.features) :
             LET props == geojson.features[k].properties
                 band == risk_levels[BandOf(props.risk_level)]
             IN  /\ props.risk_score.num >= band.min_risk * FP * props.risk_score.den
                 /\ props.risk_score.num < band.max_risk * FP * props.risk_score.den)
    /\ (pc = "done" =>
          /\ Len(alerts) = Len(geojson.features)
          /\ \A k \in 1 .. Len(alerts) :
                /\ alerts[k].confidence.num >= 60 * FP * alerts[k].confidence.den
                /\ alerts[k].confidence.num * 10 * FeatureOf(alerts[k]).properties.risk_score.den
                      = alerts[k].confidence.den
                          * (600 * FP * FeatureOf(alerts[k]).properties.risk_score.den
                             + 7 * (FeatureOf(alerts[k]).properties.risk_score.num
                                    - 40 * FP * FeatureOf(alerts[k]).properties.risk_score.den)))

\* C28 witness: an alert for a LOW region whose cells differ, its mean strictly
\* between the lower limit of the band and the higher of the cells
C28_Witness ==
    /\ pc = "done"
    /\ \E k \in 1 .. Len(alerts) :
          LET sc == FeatureOf(alerts[k]).properties.risk_score
          IN  /\ alerts[k].level = "LOW"
              /\ sc.num > 40 * FP * sc.den
              /\ sc.num < 50 * FP * sc.den
              /\ sc.num % sc.den # 0

\* --------------------------------------------------------------------- C29
\* C29: within one response all alert ids are pairwise distinct; this holds for
\* the single-region endpoints and for the national analysis, whose alert list is
\* the concatenation of the alert lists of its eight regions.
C29_AlertIdsAreDistinct ==
    /\ (pc = "done" =>
          \A i \in 1 .. Len(alerts), j \in 1 .. Len(alerts) :
             i # j => alerts[i].id # alerts[j].id)
    /\ (pc = "collected" =>
          \A i \in 1 .. Len(all_alerts), j \in 1 .. Len(all_alerts) :
             i # j => all_alerts[i].id # all_alerts[j].id)

\* --------------------------------------------------------------------- C30
\* C30: for an N x N score grid, every feature's polygon is a non-degenerate
\* rectangle (lat_min < lat_max and lon_min < lon_max) lying within
\* [lat_center - N/111, lat_center] x [lon_center, lon_center + N/111], and the
\* feature's center (center_lat, center_lon) is the midpoint of that rectangle.
RingLats(feature) ==
    {feature.geometry.coordinates[1][k][2] : k \in 1 .. Len(feature.geometry.coordinates[1])}

RingLons(feature) ==
    {feature.geometry.coordinates[1][k][1] : k \in 1 .. Len(feature.geometry.coordinates[1])}

C30_PolygonInsideTheGridWindow ==
    pc = "geojson" =>
        \A k \in 1 .. Len(geojson.features) :
            LET f == geojson.features[k]
                N == risk_score.rows
            IN  /\ Least(RingLats(f)) < Greatest(RingLats(f))
                /\ Least(RingLons(f)) < Greatest(RingLons(f))
                /\ Least(RingLats(f)) * KmPerDegree
                        >= lat_center * KmPerDegree - N * CoordUnitsPerDegree
                /\ Greatest(RingLats(f)) <= lat_center
                /\ Least(RingLons(f)) >= lon_center
                /\ Greatest(RingLons(f)) * KmPerDegree
                        <= lon_center * KmPerDegree + N * CoordUnitsPerDegree
                /\ 2 * f.properties.center_lat = Least(RingLats(f)) + Greatest(RingLats(f))
                /\ 2 * f.properties.center_lon = Least(RingLons(f)) + Greatest(RingLons(f))

\* C30 witness: a region of one row reaching the last row and the last column of
\* the grid, its polygon one pixel high and touching the far corner of the window
C30_Witness ==
    /\ pc = "geojson"
    /\ \E k \in 1 .. Len(geojson.features) :
          LET f == geojson.features[k]
          IN  /\ (Greatest(RingLats(f)) - Least(RingLats(f))) * KmPerDegree
                    = CoordUnitsPerDegree
              /\ Least(RingLats(f)) * KmPerDegree
                    = lat_center * KmPerDegree - risk_score.rows * CoordUnitsPerDegree
              /\ Greatest(RingLons(f)) * KmPerDegree
                    = lon_center * KmPerDegree + risk_score.cols * CoordUnitsPerDegree

====
